---- MODULE Spec2Model ----
(***************************************************************************)
(* ToyMine: the process-supervision and streaming-pipeline runtime.        *)
(*                                                                         *)
(*   core/task.rs              TaskManager (coordinator loop, shutdown)    *)
(*   core/mc_server/runner.rs  Runner (stdin-writer, stdout-reader,        *)
(*                             exit-guard, kill_with_timeout, wait)        *)
(*   command/mod.rs            CommandLoader (register, load, relay loop)  *)
(*                                                                         *)
(* One Runner (id 1) and its child process are modelled.  Lines on the     *)
(* output side are sequences <<n, tag, tag, ...>>: n is the number of the  *)
(* line in the child's emission order and every plugin that processed the  *)
(* line appended its tag.  Lines on the input side are <<source, k, end>>: *)
(* the k-th line sent, by whom, and the line terminator the sender put at  *)
(* its end.                                                                *)
(***************************************************************************)
EXTENDS Naturals, Sequences, FiniteSets

\* ------------------------------------------------------------------ bounds

\* Lines the child writes to its stdout during a run.
MaxLines == 4
\* Capacity of the Runner's output channel (channel(32), runner.rs:45), scaled.
OutputCap == 2
\* Capacity of the relay's own channel (channel::<String>(32), mod.rs:66), scaled.
RelayCap == 2
\* Lines the OS pipe of the child's stdout holds.
StdoutPipeCap == 1
\* Calls of register() during a run.
MaxRegister == 2
\* Lines sent on Runner.input by the caller and by plugins during a run.
MaxIn == 4
\* Of these, the lines sent by plugins.
MaxPluginLines == 1
\* Capacity of the Runner's input channel (channel::<String>(32), runner.rs:43), scaled.
InputCap == 2
\* Lines the OS pipe of the child's stdin holds.
StdinPipeCap == 1
\* Largest timeout given to kill_with_timeout, in ticks of the clock.
MaxT == 1
\* Calls of kill_with_timeout during a run.
MaxKills == 2
\* Tasks submitted to the TaskManager during a run.
MaxTasks == 3
\* Capacity of the submission queue (mpsc::channel::<Task>(128), task.rs:27), scaled.
SpawnCap == 2
\* Calls of Runner::spawn_server during a run.
MaxSpawns == 3
\* Longest path of a Unix socket in a Config, in characters.
MaxPathLen == 4
\* Lines the child writes to its stdout in the runs of the stdio cycle.
MaxCycleLines == 6
\* Lines typed at the console.
MaxTyped == 5
\* Ids of the backup tasks, concurrent callers of the BackupManager and the
\* calls they make.
MaxBackupId == 2
MaxApiCallers == 1
MaxApi == 3
\* Projects in the daemon's known list.
MaxProjects == 3

\* ------------------------------------------------------------------ constants

\* static NEXT_RUNNER_ID: AtomicUsize = AtomicUsize::new(1) (runner.rs:39).
FirstRunnerId == 1

\* ------------------------------------------------------------------ state

VARIABLES
    \* --- TaskManager (core/task.rs)
    cancel_token,   \* BOOLEAN: the shared CancellationToken is cancelled
    spawn_channel,  \* the submission queue: tasks sent and not yet received
    tasks,          \* the JoinSet: the tasks it tracks
    tasksLock,      \* holder of the Mutex around the JoinSet: "free" | "manager" | "shutdown"
    taskState,      \* per task: "new" | "queued" | "running" | "aborting" | "finished" |
                    \*           "failed" | "aborted" | "dropped" | "rejected"
    taskKind,       \* per task: "loop" (spawn_with_cancel) | "plain" (spawn)
    managerPc,      \* coordinator: "select" | "spawn" | "exited"
    managerTask,    \* the task the coordinator received and has not spawned yet
    shutdownPc,     \* shutdown(): "idle" | "lock" | "abort" | "join" | "returned"
    \* --- child process, stdout side
    childState,     \* "running" | "stopping" | "exited" | "killed"
    nEmitted,       \* number of lines the child has written to its stdout
    stdoutPipe,     \* lines in the child's stdout pipe, not yet read
    \* --- Runner, stdout side (runner.rs:61-77, 126-137)
    readerPc,       \* stdout-reader: "select" | "send" | "eof" | "done" | "failed" | "aborted"
    readerLine,     \* the line the stdout-reader holds while it sends
    output,         \* Runner.output: the lossless channel's buffer
    \* --- CommandLoader (command/mod.rs)
    plugins,        \* the chain stored for the runner id, or None
    nRegister,      \* calls of register() so far
    relayPc,        \* relay: "unloaded" | "recv" | "fold" | "plugin" | "clear" | "done" |
                    \*        "failed" | "aborted"
    relayPlugins,  \* the Arc<Vec<..>> the relay task captured
    foldRest,       \* the plugins the fold in progress has still to call (plugins.iter())
    value,          \* the line the relay holds (pipeline's `value`)
    rx,             \* the relay's own channel: its buffer
    rxLock,         \* holder of the Mutex around the relay's receiver
    \* --- consumer of the handle returned by load() (pump_stdout, runner.rs:202-219)
    consumerPc,     \* "idle" | "locked" | "processing"
    rxHandle,       \* the handle load() returned: "held" | "dropped"
    \* --- child process, stdin side
    behaviour,      \* what the child does: "obeys" | "ignores" | "noread" | "selfexit"
    stdinPipe,      \* lines in the child's stdin pipe, not yet read by the child
    \* --- Runner, stdin side (runner.rs:50-59, 114-125)
    input,          \* Runner.input: the channel's buffer
    writerPc,       \* stdin-writer: "select" | "write" | "done" | "failed" | "aborted"
    writerLine,     \* the line the stdin-writer holds while it writes
    nSent,          \* lines sent on Runner.input by the caller and by plugins
    \* --- Runner, exit-guard (runner.rs:79-112, 138-149)
    stop,           \* Runner.stop: "some" | "none" (the Option around the oneshot sender)
    stopCh,         \* the stop oneshot: "empty" | "value" | "taken" | "rx_dropped"
    stopT,          \* the Duration sent on the stop oneshot
    guardPc,        \* exit-guard: "select" | "send" | "grace" | "wait" | "done" | "aborted"
    graceLeft,      \* ticks left until the deadline of timeout(time, ..)
    exit,           \* the exit oneshot: <<"pending">> | <<"status", s>> | <<"consumed">> | <<"closed">>
    exitLock,       \* holder of the Mutex around Runner.exit
    waitPc,         \* per wait() caller: "idle" | "lock" | "await" | "ok" | "err" | "panic"
    waitGot,        \* per wait() caller: the status its last call returned
    \* --- clock and history (for stating the claims; no action reads them)
    sinceStop,      \* ticks since kill_with_timeout succeeded (0 before)
    killLog,        \* one record per call of kill_with_timeout
    killedAt,       \* <<sinceStop>> when the exit-guard called start_kill, << >> before
    entered,        \* lines accepted by Runner.input, in order
    written,        \* lines written to the child's stdin, in order
    taken,          \* lines received from Runner.output, in order
    published,      \* one record per successful try_send of the relay
    discarded,      \* lines the relay removed from its own channel
    consumed,       \* lines read from the handle returned by load()
    lastFold,       \* the fold the relay started last: its line, its chain, the stored chain
    lateOk,         \* tasks whose submission was called after the token was cancelled
                    \* and returned Ok
    \* --- Runner::spawn_server, the ids (runner.rs:31-40, 151-157)
    NEXT_RUNNER_ID, \* the static counter
    spawnPc,        \* per caller of spawn_server: "idle" | "child" | "id" | "ok" | "failed"
    spawnId,        \* per caller: the id its call in progress took (0: none)
    nSpawns,        \* calls of spawn_server so far
    idLog,          \* history: the ids taken from the counter, in the order of the fetch_add
    runners,        \* history: the ids of the Runners returned, in the order of their return
    spawnLeft,      \* per caller: what its last call left behind: whether a child
                    \* process runs, and how many of the Runner's loops were submitted
    \* --- the daemon's Config and its file (daemon/config.rs)
    config,         \* the Config in memory
    cfgPc,          \* "new" | "written" | "read"
    file,           \* the TOML document in the file (<< >>: no file)
    loaded,         \* << >>, or <<r>> with r the Result of Config::from_file
    \* --- a second reader of Runner.output
    takenSecond,    \* history: the lines the second reader received, in order
    \* --- sync_channel_stdio (runner.rs:180-229)
    stdinCh,        \* AsyncStdin's channel: lines its thread read, not yet taken
    pumpLine,       \* the line pump_stdin holds while it sends
    readIn,         \* history: the lines stdin.next() yielded, in order
    screen,         \* history: the lines written to the console, in order
    \* --- BackupManager (core/backup/mod.rs)
    bkSchedule,     \* BackupManager.schedule: the ids of the queued tasks, in order
    bkLock,         \* holder of the Mutex around the schedule: "free" | "thread" | a caller
    bkQueue,        \* those that wait in schedule.lock(), in the order of their arrival
    bkPc,           \* backup_thread: "head" | "lock" | "sleep" | "due" | "relock" | "done"
    bkTask,         \* the id of the task backup_thread popped, 0 when it holds none
    apiPc,          \* per caller of register/remove/run_now: [op, id, pc, res]
    nApi,           \* calls of register/remove/run_now so far
    bkRan,          \* history: the ids of the tasks backup_thread ran, in order
    bkGone,         \* history: the ids removed and not registered again since
    \* --- daemon (daemon/control.rs, daemon/config.rs)
    disk,           \* the files of the daemon's work_dir: name -> the project list in it
    lastReq,        \* history: the last request served: [op, id, status, before]
    \* --- terminal mode (project_manager/run.rs)
    startPc,        \* start_server: "select" | "join" | "returned"
    srvPc,          \* server_thread: "startup" | "select" | "grace" | "cleanup" | "done"
    helperPc,       \* per stdout/stderr/stdin loop: "wait" | "select" | "done" | "aborted"
    printPc,        \* print loop: "recv" | "select" | "done"
    consolePc,      \* console input loop: "select" | "body" | "done"
    bkupPc,         \* backup_thread: "off" | "init" | "wait" | "done"
    woken,          \* the tasks whose pending stop.notified() has been notified
    stopRaised      \* history: notify_waiters() has been called on the stop flag

outVars == <<childState, nEmitted, stdoutPipe, readerPc, readerLine, output>>
relayVars == <<plugins, nRegister, relayPc, relayPlugins, foldRest, value, rx, rxLock, consumerPc,
              rxHandle>>
histVars == <<taken, published, discarded, consumed, lastFold>>

inVars == <<behaviour, stdinPipe, input, writerPc, writerLine, nSent, entered, written>>
guardVars == <<stop, stopCh, stopT, guardPc, graceLeft, exit, sinceStop, killLog, killedAt>>
waitVars == <<exitLock, waitPc, waitGot>>
idVars == <<NEXT_RUNNER_ID, spawnPc, spawnId, nSpawns, idLog, runners, spawnLeft>>
cfgVars == <<config, cfgPc, file, loaded>>
syncVars == <<stdinCh, pumpLine, readIn, screen>>
bkVars == <<bkSchedule, bkLock, bkQueue, bkPc, bkTask, apiPc, nApi, bkRan, bkGone>>
dmVars == <<disk, lastReq>>
termVars == <<startPc, srvPc, helperPc, printPc, consolePc, bkupPc, woken, stopRaised>>
restVars == <<dmVars, termVars>>
otherVars == <<bkVars, restVars>>
runVars == <<inVars, guardVars, waitVars, idVars, cfgVars, takenSecond, syncVars, otherVars>>

tmVars == <<spawn_channel, tasks, tasksLock, taskState, taskKind, managerPc, managerTask,
            shutdownPc, lateOk>>

vars == <<cancel_token, tmVars, outVars, relayVars, histVars, runVars>>

None == "None"
\* No line in hand; no chain stored for the id.
NoLine == << >>
NoChain == <<"None">>
Free == "free"

\* ------------------------------------------------------------------ plugins

\* The plugins of the runs: each one appends its tag to the line (spec P5:
\* [A,B] turns "x" into "xAB").
PluginNames == {"A", "B", "C"}

\* The line number a line carries.
origin(line) == line[1]

\* ExamplePlugin (command/raw.rs:8): it returns the line as it came (raw.rs:36).
ExamplePlugin == "E"

\* Whether ExamplePlugin's pattern finds a chat message that begins with '.'
\* in the line (raw.rs:13-17): in the runs the child's odd lines are such
\* messages, the even ones are other log lines.
IsDotCommand(v) == origin(v) % 2 = 1

\* CommandPlugin::process (command/mod.rs:21-24): the value a plugin returns,
\* for a tagging plugin and for ExamplePlugin.
process(p, v) == IF p = ExamplePlugin THEN v ELSE Append(v, p)

\* The chains register() is called with.
Chains == {<<"A", "B">>, <<"C">>}

\* stream::iter(plugins.iter()).fold(value, |v, x| x.process(v, input)) (mod.rs:99-103)
RECURSIVE fold(_, _)
fold(chain, v) ==
    IF chain = << >> THEN v ELSE fold(Tail(chain), process(Head(chain), v))

\* ------------------------------------------------------------------ helpers

Ended(pc) == pc \in {"done", "failed", "aborted"}

\* Set of the elements of a sequence.
Range(s) == {s[i] : i \in 1..Len(s)}

\* The last n elements of s (all of s when it is shorter).
LastN(s, n) == SubSeq(s, IF Len(s) > n THEN Len(s) - n + 1 ELSE 1, Len(s))

IsPrefix(s, t) == Len(s) <= Len(t) /\ SubSeq(t, 1, Len(s)) = s

\* The line mpsc::Receiver::recv() yields and what it leaves in the channel:
\* the oldest line is taken (mpsc is FIFO).
RecvNewest(ch) == ch[Len(ch)]
Recv(ch) == Head(ch)
Rest(ch) == Tail(ch)

\* mpsc::Sender::send on a bounded channel: TRUE when the buffer has room.
HasRoom(ch, cap) == Len(ch) < cap

\* ------------------------------------------------------------------ TaskManager

Tasks == 1..MaxTasks

\* A task that can still take a step: it runs, or its abort was requested and
\* it has not reached the yield point where the runtime cancels it (the
\* runtime is multi-threaded: Runtime::new()).
Live(s) == s \in {"running", "aborting"}
Terminated(s) == s \in {"finished", "failed", "aborted"}

\* A waiter queued on the JoinSet's Mutex is served first (tokio's Mutex is
\* FIFO): shutdown() queues itself right after cancelling the token.
ShutdownWaits == shutdownPc = "lock"

\* spawn / spawn_with_cancel (task.rs:43-72): the task is sent on the
\* submission queue; the send waits while the queue is full and fails once
\* the coordinator has dropped the receiver.  Tasks are submitted in the
\* order of their numbers.
Submit(t, kind) ==
    /\ taskState[t] = "new"
    /\ \A u \in Tasks : u < t => taskState[u] # "new"
    /\ taskKind' = [taskKind EXCEPT ![t] = kind]
    /\ \/ /\ managerPc = "exited"
          /\ taskState' = [taskState EXCEPT ![t] = "rejected"]
          /\ UNCHANGED <<spawn_channel, lateOk>>
       \/ /\ managerPc # "exited"
          /\ HasRoom(spawn_channel, SpawnCap)
          /\ spawn_channel' = Append(spawn_channel, t)
          /\ taskState' = [taskState EXCEPT ![t] = "queued"]
          /\ lateOk' = (IF cancel_token THEN lateOk \cup {t} ELSE lateOk)
    /\ UNCHANGED <<cancel_token, tasks, tasksLock, managerPc, managerTask, shutdownPc,
                   outVars, relayVars, histVars, runVars>>

spawn == \E t \in Tasks : Submit(t, "plain")
spawn_with_cancel == \E t \in Tasks : Submit(t, "loop")

\* A task ends by itself, with Ok or with an error or a panic.
TaskEnd(t) ==
    /\ Live(taskState[t])
    /\ \E r \in {"finished", "failed"} : taskState' = [taskState EXCEPT ![t] = r]
    /\ UNCHANGED <<cancel_token, spawn_channel, tasks, tasksLock, taskKind, managerPc,
                   managerTask, shutdownPc, lateOk, outVars, relayVars, histVars, runVars>>

\* A loop submitted with spawn_with_cancel sees the token cancelled and breaks.
TaskCancelled(t) ==
    /\ Live(taskState[t])
    /\ taskKind[t] = "loop"
    /\ cancel_token
    /\ taskState' = [taskState EXCEPT ![t] = "finished"]
    /\ UNCHANGED <<cancel_token, spawn_channel, tasks, tasksLock, taskKind, managerPc,
                   managerTask, shutdownPc, lateOk, outVars, relayVars, histVars, runVars>>

\* A task whose abort was requested reaches a yield point: the runtime drops
\* its future.
TaskAborted(t) ==
    /\ taskState[t] = "aborting"
    /\ taskState' = [taskState EXCEPT ![t] = "aborted"]
    /\ UNCHANGED <<cancel_token, spawn_channel, tasks, tasksLock, taskKind, managerPc,
                   managerTask, shutdownPc, lateOk, outVars, relayVars, histVars, runVars>>

Task == \E t \in Tasks : TaskEnd(t) \/ TaskCancelled(t) \/ TaskAborted(t)

\* manager, third select! branch (task.rs:90-93): the future takes the lock
\* of the JoinSet and keeps it while join_next() is pending.
ManagerPollJoin ==
    /\ managerPc = "select"
    /\ tasks # {}
    /\ tasksLock = Free
    /\ ~ShutdownWaits
    /\ tasksLock' = "manager"
    /\ UNCHANGED <<cancel_token, spawn_channel, tasks, taskState, taskKind, managerPc,
                   managerTask, shutdownPc, lateOk, outVars, relayVars, histVars, runVars>>

\* Leaving the select! drops the branch futures, and with them the lock.
KeptByManager(l) == l
ReleasedByManager(l) == IF l = "manager" THEN Free ELSE l

\* manager, first branch (task.rs:82-85): the token is cancelled, break.  The
\* receiver of the submission queue is dropped with the tasks still in it.
ManagerCancelled ==
    /\ managerPc = "select"
    /\ cancel_token
    /\ managerPc' = "exited"
    /\ tasksLock' = ReleasedByManager(tasksLock)
    /\ taskState' = [t \in Tasks |-> IF taskState[t] = "queued" THEN "dropped"
                                     ELSE taskState[t]]
    /\ spawn_channel' = << >>
    /\ UNCHANGED <<cancel_token, tasks, taskKind, managerTask, shutdownPc,
                   lateOk, outVars, relayVars, histVars, runVars>>

\* manager, second branch (task.rs:86-89): a task arrived;
\* tasks.lock().await.spawn(task) runs at once when the lock is free.
ManagerRecv ==
    /\ managerPc = "select"
    /\ spawn_channel # << >>
    /\ spawn_channel' = Tail(spawn_channel)
    /\ IF ReleasedByManager(tasksLock) = Free /\ ~ShutdownWaits
       THEN /\ tasks' = tasks \cup {Head(spawn_channel)}
            /\ taskState' = [taskState EXCEPT ![Head(spawn_channel)] = "running"]
            /\ tasksLock' = Free
            /\ UNCHANGED <<managerPc, managerTask>>
       ELSE /\ managerPc' = "spawn"
            /\ managerTask' = Head(spawn_channel)
            /\ tasksLock' = ReleasedByManager(tasksLock)
            /\ UNCHANGED <<tasks, taskState>>
    /\ UNCHANGED <<cancel_token, taskKind, shutdownPc, lateOk, outVars, relayVars, histVars, runVars>>

\* manager, second branch, after waiting for the lock.
ManagerSpawn ==
    /\ managerPc = "spawn"
    /\ tasksLock = Free
    /\ ~ShutdownWaits
    /\ tasks' = tasks \cup {managerTask}
    /\ taskState' = [taskState EXCEPT ![managerTask] = "running"]
    /\ managerTask' = 0
    /\ managerPc' = "select"
    /\ UNCHANGED <<cancel_token, spawn_channel, tasksLock, taskKind, shutdownPc,
                   lateOk, outVars, relayVars, histVars, runVars>>

\* What the coordinator does with the outcome of a task (task.rs:94-98):
\* Ok(Ok(_)) => {}, Ok(Err(e)) and Err(e) => error!(..): the task states stay.
LogOutcomeEscalates(st, t) ==
    IF st[t] = "failed"
    THEN [u \in Tasks |-> IF st[u] = "running" THEN "aborted" ELSE st[u]]
    ELSE st
LogOutcome(st, t) == st

\* manager, third branch (task.rs:90-99): join_next() returned a task that
\* ended; its outcome is logged.
ManagerJoin ==
    /\ managerPc = "select"
    /\ tasksLock = "manager"
    /\ \E t \in tasks :
          /\ Terminated(taskState[t])
          /\ tasks' = tasks \ {t}
          /\ taskState' = LogOutcome(taskState, t)
    /\ tasksLock' = Free
    /\ UNCHANGED <<cancel_token, spawn_channel, taskKind, managerPc, managerTask,
                   shutdownPc, lateOk, outVars, relayVars, histVars, runVars>>

\* shutdown (task.rs:106-109): cancel_token.cancel(), then tasks.lock().await.
ShutdownStart ==
    /\ shutdownPc = "idle"
    /\ cancel_token' = TRUE
    /\ IF tasksLock = Free
       THEN tasksLock' = "shutdown" /\ shutdownPc' = "abort"
       ELSE shutdownPc' = "lock" /\ UNCHANGED tasksLock
    /\ UNCHANGED <<spawn_channel, tasks, taskState, taskKind, managerPc, managerTask,
                   lateOk, outVars, relayVars, histVars, runVars>>

ShutdownLock ==
    /\ shutdownPc = "lock"
    /\ tasksLock = Free
    /\ tasksLock' = "shutdown"
    /\ shutdownPc' = "abort"
    /\ UNCHANGED <<cancel_token, spawn_channel, tasks, taskState, taskKind, managerPc,
                   managerTask, lateOk, outVars, relayVars, histVars, runVars>>

\* What JoinSet::abort_all does to the task states: the abort of every
\* tracked task that has not ended is requested.
AbortAll(st, set) ==
    [t \in Tasks |-> IF t \in set /\ st[t] = "running" THEN "aborting" ELSE st[t]]

\* What awaiting the tasks of the JoinSet does: every aborted task has ended
\* when the await returns.
JoinAll(st, set) ==
    [t \in Tasks |-> IF t \in set /\ st[t] = "aborting" THEN "aborted" ELSE st[t]]

\* shutdown (task.rs:109): JoinSet::shutdown() aborts every tracked task and
\* awaits them all; the lock is released at the end of the statement.
ShutdownAbort ==
    /\ shutdownPc = "abort"
    /\ taskState' = JoinAll(AbortAll(taskState, tasks), tasks)
    /\ tasks' = {}
    /\ tasksLock' = Free
    /\ shutdownPc' = "join"
    /\ UNCHANGED <<cancel_token, spawn_channel, taskKind, managerPc, managerTask,
                   lateOk, outVars, relayVars, histVars, runVars>>

\* What dropping the JoinSet does to the task states: it aborts its tasks and
\* awaits none.
DropJoinSetDetach(st, set) == st
DropJoinSet(st, set) == AbortAll(st, set)

\* shutdown (task.rs:110-112): self.manager.await, then the function ends and
\* drops self: the last Arc of the JoinSet goes, and the JoinSet with it.
ShutdownJoin ==
    /\ shutdownPc = "join"
    /\ managerPc = "exited"
    /\ taskState' = DropJoinSet(taskState, tasks)
    /\ tasks' = {}
    /\ shutdownPc' = "returned"
    /\ UNCHANGED <<cancel_token, spawn_channel, tasksLock, taskKind, managerPc,
                   managerTask, lateOk, outVars, relayVars, histVars, runVars>>

\* ------------------------------------------------------------------ child, stdout side

\* The child writes its next line to its stdout; a full pipe makes it wait.
ChildEmitUpTo(n) ==
    /\ childState \in {"running", "stopping"}
    /\ nEmitted < n
    /\ Len(stdoutPipe) < StdoutPipeCap
    /\ nEmitted' = nEmitted + 1
    /\ stdoutPipe' = Append(stdoutPipe, <<nEmitted + 1>>)
    /\ UNCHANGED <<tmVars, runVars, cancel_token, childState, readerPc, readerLine, output, relayVars, histVars>>

ChildEmit == ChildEmitUpTo(MaxLines)

\* ------------------------------------------------------------------ stdout-reader

\* select! branch `Ok(Some(line)) = lines.next_line()` (runner.rs:131): the
\* child's lines are text that next_line() decodes, yielded without their
\* terminator.
ReaderRead ==
    /\ readerPc = "select"
    /\ stdoutPipe # << >>
    /\ readerLine' = Head(stdoutPipe)
    /\ stdoutPipe' = Tail(stdoutPipe)
    /\ readerPc' = "send"
    /\ UNCHANGED <<tmVars, runVars, cancel_token, childState, nEmitted, output, relayVars, histVars>>

\* The buffers stdout_tx.send(line).await can leave behind (runner.rs:67):
\* the line is appended when there is room; there is no outcome while the
\* channel is full, the send waits.
send_output_lossy(line, ch) == IF HasRoom(ch, OutputCap) THEN {Append(ch, line)} ELSE {ch}
send_output(line, ch) == IF HasRoom(ch, OutputCap) THEN {Append(ch, line)} ELSE {}

\* send_output (runner.rs:65-77): the receiver is held by the Runner, so the
\* send never fails while the Runner exists.
ReaderSend ==
    /\ readerPc = "send"
    /\ \E ch \in send_output(readerLine, output) : output' = ch
    /\ readerLine' = NoLine
    /\ readerPc' = "select"
    /\ UNCHANGED <<tmVars, runVars, cancel_token, childState, nEmitted, stdoutPipe, relayVars, histVars>>

\* next_line() returns Ok(None) at end of file: the pattern does not match,
\* the branch is disabled and the select! waits for the token alone.
ReaderEof ==
    /\ readerPc = "select"
    /\ stdoutPipe = << >>
    /\ childState \in {"exited", "killed"}
    /\ readerPc' = "eof"
    /\ UNCHANGED <<tmVars, runVars, cancel_token, childState, nEmitted, stdoutPipe, readerLine, output,
                   relayVars, histVars>>

\* select! branch `_ = t.cancelled() => break` (runner.rs:132).
ReaderCancelled ==
    /\ readerPc \in {"select", "eof"}
    /\ cancel_token
    /\ readerPc' = "done"
    /\ UNCHANGED <<tmVars, runVars, cancel_token, childState, nEmitted, stdoutPipe, readerLine, output,
                   relayVars, histVars>>

\* The sending half of Runner.output is owned by the stdout-reader task: the
\* channel is closed once that task has ended.
OutputClosed == Ended(readerPc)

\* ------------------------------------------------------------------ CommandLoader

\* register (command/mod.rs:37-59): stores the chain in the entry of the id,
\* creating the entry when there is none.
register(chain) ==
    /\ nRegister < MaxRegister
    /\ plugins' = chain
    /\ nRegister' = nRegister + 1
    /\ UNCHANGED <<tmVars, runVars, cancel_token, outVars, relayPc, relayPlugins, foldRest, value, rx, rxLock,
                   consumerPc, rxHandle, histVars>>

Register == \E chain \in Chains : register(chain)

\* What register returns (mod.rs:42-58), given what is stored for the id:
\* Some(v) => Ok(()) after the store; None => Ok(()) when insert() returns
\* None, which it does for a key that get() has just not found.
register_result(stored) ==
    IF stored # NoChain
    THEN "Ok"
    ELSE IF stored = NoChain THEN "Ok" ELSE "Err"

\* The chain the relay task is given (mod.rs:73-83, 125-128): `plugins` is
\* loaded once, in load(), and the task clones that Arc for every pipeline call.
LoadedChain(stored, captured) == captured

\* load (command/mod.rs:61-137): creates the entry when there is none, takes
\* the snapshot and submits the relay task.
load ==
    /\ relayPc = "unloaded"
    /\ plugins' = (IF plugins = NoChain THEN << >> ELSE plugins)
    /\ relayPlugins' = plugins'
    /\ relayPc' = "recv"
    /\ UNCHANGED <<tmVars, runVars, cancel_token, outVars, nRegister, foldRest, value, rx, rxLock,
                   consumerPc, rxHandle, histVars>>

\* pipeline: output.lock().await.recv().await returned Some(value) (mod.rs:92-95).
PipelineRecv ==
    /\ relayPc = "recv"
    /\ output # << >>
    /\ value' = Head(output)
    /\ output' = Tail(output)
    /\ taken' = Append(taken, Head(output))
    /\ relayPc' = "fold"
    /\ UNCHANGED <<tmVars, runVars, cancel_token, childState, nEmitted, stdoutPipe, readerPc, readerLine,
                   plugins, nRegister, relayPlugins, foldRest, rx, rxLock, consumerPc, rxHandle,
                   published, discarded, consumed, lastFold>>

\* Where the relay goes when recv() returns None (mod.rs:93, 128):
\* Err("channel closed") leaves pipeline and, through `e?`, the task.
OnClosedGoOn(pc) == "fold"
OnClosed(pc) == "failed"

\* pipeline: recv() returned None => Err("channel closed") (mod.rs:93); the
\* task ends through `e?` (mod.rs:128).
PipelineClosed ==
    /\ relayPc = "recv"
    /\ output = << >>
    /\ OutputClosed
    /\ relayPc' = OnClosed(relayPc)
    /\ UNCHANGED <<tmVars, runVars, cancel_token, outVars, plugins, nRegister, relayPlugins, foldRest, value, rx,
                   rxLock, consumerPc, rxHandle, histVars>>

\* The value the loop keeps for the retry after TrySendError::Full(v)
\* (mod.rs:106-114): v is the line try_send was given, the folded one.
RetryValue(original, folded) == folded

\* The plugins a fold has still to call after one call: the rest of the
\* iterator over the snapshot it started with (mod.rs:99), whatever is stored
\* for the id by now.
RemainingLive(rest, stored) ==
    IF stored = NoChain THEN Tail(rest) ELSE LastN(stored, Len(rest) - 1)
Remaining(rest, stored) == Tail(rest)

\* pipeline: a pass of the loop begins (mod.rs:97-100): the fold starts over
\* the chain the task was given.
PipelineFold ==
    /\ relayPc = "fold"
    /\ LET chain == LoadedChain(plugins, relayPlugins)
       IN /\ lastFold' = [input |-> value, chain |-> chain, stored |-> plugins]
          /\ foldRest' = chain
    /\ relayPc' = "plugin"
    /\ UNCHANGED <<tmVars, runVars, cancel_token, outVars, plugins, nRegister, relayPlugins, value,
                   rx, rxLock, consumerPc, rxHandle, taken, published, discarded, consumed>>

\* pipeline: the fold calls the next plugin, x.process(v, input.clone()).await
\* (mod.rs:100-102).
PipelinePlugin ==
    /\ relayPc = "plugin"
    /\ foldRest # << >>
    /\ Head(foldRest) # ExamplePlugin
    /\ value' = process(Head(foldRest), value)
    /\ foldRest' = Remaining(foldRest, plugins)
    /\ UNCHANGED <<tmVars, runVars, cancel_token, outVars, plugins, nRegister, relayPc, relayPlugins,
                   rx, rxLock, consumerPc, rxHandle, histVars>>

\* Whether the relay's own channel is closed: its Receiver is dropped with
\* the last Arc of it, and the relay task holds one (rx_clone, mod.rs:68-69,
\* 128) beside the handle that load() returns.
RxClosedSoleHandle(h, pc) == h = "dropped"
RxClosed(h, pc) == h = "dropped" /\ Ended(pc)

\* pipeline: the fold is done, tx.try_send(result) (mod.rs:98-118): Ok ends
\* the call, Full keeps the returned line for the retry, Closed ends the task
\* with the error (mod.rs:116, 128).
PipelineTrySend ==
    /\ relayPc = "plugin"
    /\ foldRest = << >>
    /\ IF RxClosed(rxHandle, relayPc)
       THEN /\ relayPc' = "failed"
            /\ value' = NoLine
            /\ UNCHANGED <<rx, published>>
       ELSE IF HasRoom(rx, RelayCap)
       THEN /\ rx' = Append(rx, value)
            /\ published' = Append(published, [line |-> value, chain |-> lastFold.chain])
            /\ value' = NoLine
            /\ relayPc' = "recv"
       ELSE /\ value' = RetryValue(lastFold.input, value)
            /\ relayPc' = "clear"
            /\ UNCHANGED <<rx, published>>
    /\ UNCHANGED <<tmVars, runVars, cancel_token, outVars, plugins, nRegister, relayPlugins, foldRest,
                   rxLock, consumerPc, rxHandle, taken, discarded, consumed, lastFold>>

\* What rx.lock().await.try_recv() leaves in the channel (mod.rs:108): it
\* removes the oldest line.
ClearDropNewest(ch) == SubSeq(ch, 1, Len(ch) - 1)
Clear(ch) == Tail(ch)

\* pipeline: the Full arm (mod.rs:106-115): lock the receiver, try_recv once
\* (an empty channel is only logged), then go round the loop again.
PipelineClear ==
    /\ relayPc = "clear"
    /\ rxLock = Free
    /\ IF rx # << >>
       THEN /\ discarded' = Append(discarded, Head(rx))
            /\ rx' = Clear(rx)
       ELSE UNCHANGED <<rx, discarded>>
    /\ relayPc' = "fold"
    /\ UNCHANGED <<tmVars, runVars, cancel_token, outVars, plugins, nRegister, relayPlugins, foldRest, value, rxLock,
                   consumerPc, rxHandle, taken, published, consumed, lastFold>>

\* select! branch `_ = t.cancelled() => break` (mod.rs:129): taken at a point
\* where pipeline is suspended (the recv, the lock of the Full arm, or the
\* await of a plugin's process).
RelayCancelled ==
    /\ relayPc \in {"recv", "clear", "plugin"}
    /\ cancel_token
    /\ relayPc' = "done"
    /\ value' = NoLine
    /\ foldRest' = << >>
    /\ UNCHANGED <<tmVars, runVars, cancel_token, outVars, plugins, nRegister, relayPlugins, rx, rxLock,
                   consumerPc, rxHandle, histVars>>

\* ------------------------------------------------------------------ a second reader

\* What a recv() leaves in Runner.output for the other readers: the line
\* received is removed (an mpsc channel hands each message to one receiver).
Duplicating(ch) == ch
Competing(ch) == Tail(ch)

\* Another holder of Runner.output (runner.rs:24, 60-61, 154: the field is an
\* Arc<Mutex<Receiver<String>>>), a second relay created by a second load()
\* (mod.rs:71, 92) or a direct reader, does output.lock().await.recv().await:
\* under the Mutex one reader at a time receives, one line per recv.
SecondReaderRecv ==
    /\ output # << >>
    /\ Len(takenSecond) < MaxLines
    /\ takenSecond' = Append(takenSecond, Recv(output))
    /\ output' = Competing(output)
    /\ UNCHANGED <<tmVars, cancel_token, childState, nEmitted, stdoutPipe, readerPc, readerLine,
                   relayVars, histVars, inVars, guardVars, waitVars, idVars, cfgVars, syncVars, otherVars>>

\* ------------------------------------------------------------------ consumer

\* pump_stdout (runner.rs:202-219): output.lock().await ...  The Mutex serves
\* its waiters in the order of their arrival: a relay that waits for the lock
\* in its Full arm comes first.
ConsumerLock ==
    /\ consumerPc = "idle"
    /\ relayPc # "unloaded"
    /\ rxHandle = "held"
    /\ rxLock = Free
    /\ relayPc # "clear"
    /\ rxLock' = "consumer"
    /\ consumerPc' = "locked"
    /\ UNCHANGED <<tmVars, runVars, cancel_token, outVars, plugins, nRegister, relayPc, relayPlugins, foldRest, value,
                   rx, rxHandle, histVars>>

\* ... .recv().await returned Some(line); the guard lives to the end of the match.
ConsumerRecv ==
    /\ consumerPc = "locked"
    /\ rx # << >>
    /\ consumed' = Append(consumed, Recv(rx))
    /\ rx' = Rest(rx)
    /\ consumerPc' = "processing"
    /\ UNCHANGED <<tmVars, runVars, cancel_token, outVars, plugins, nRegister, relayPc, relayPlugins, foldRest, value,
                   rxLock, rxHandle, taken, published, discarded, lastFold>>

\* The line is written to the console; the match ends and drops the guard.
ConsumerDone ==
    /\ consumerPc = "processing"
    /\ rxLock' = Free
    /\ consumerPc' = "idle"
    /\ UNCHANGED <<tmVars, runVars, cancel_token, outVars, plugins, nRegister, relayPc, relayPlugins, foldRest, value,
                   rx, rxHandle, histVars>>

\* The caller drops the handle load() returned (mod.rs:136), between two reads.
DropHandle ==
    /\ relayPc # "unloaded"
    /\ rxHandle = "held"
    /\ consumerPc = "idle"
    /\ rxHandle' = "dropped"
    /\ UNCHANGED <<tmVars, runVars, cancel_token, outVars, plugins, nRegister, relayPc, relayPlugins, foldRest, value,
                   rx, rxLock, consumerPc, histVars>>

\* ------------------------------------------------------------------ child, stdin side

Alive(c) == c \in {"running", "stopping"}
Dead(c) == c \in {"exited", "killed"}

\* std::process::ExitStatus of the terminated child, as child.wait() reports
\* it (runner.rs:145): ended by the kill signal, or exited with a code.
ExitStatusAlwaysCode(c) == "code"
ExitStatusOf(c) == IF c = "killed" THEN "signal" ELSE "code"

\* The line the exit-guard sends: "stop\n" (runner.rs:87).
StopLine == <<"guard", 0, "\n">>

\* The child reads a line from its stdin; a child that obeys starts to stop
\* when the line is the stop command.  A child in start-up reads its stdin
\* once it has written its start-up lines.
ChildRead ==
    /\ Alive(childState)
    /\ behaviour # "noread"
    /\ behaviour = "startup" => nEmitted = MaxCycleLines
    /\ stdinPipe # << >>
    /\ stdinPipe' = Tail(stdinPipe)
    /\ childState' = (IF Head(stdinPipe) = StopLine /\ behaviour = "obeys"
                      THEN "stopping" ELSE childState)
    /\ UNCHANGED <<tmVars, cancel_token, nEmitted, stdoutPipe, readerPc, readerLine, output,
                   relayVars, histVars, behaviour, input, writerPc, writerLine, nSent,
                   entered, written, guardVars, waitVars, idVars, cfgVars, takenSecond, syncVars, otherVars>>

\* The child exits: after the stop command, or on its own.
ChildExit ==
    /\ \/ childState = "stopping"
       \/ childState = "running" /\ behaviour = "selfexit"
    /\ childState' = "exited"
    /\ UNCHANGED <<tmVars, cancel_token, nEmitted, stdoutPipe, readerPc, readerLine, output,
                   relayVars, histVars, runVars>>

\* ------------------------------------------------------------------ Runner.input

\* The receiving half of Runner.input is owned by the stdin-writer task: the
\* channel is closed once that task has ended.
InputClosed == Ended(writerPc)

\* input.send(line).await by the caller (pump_stdin, runner.rs:191) or by a
\* plugin (raw.rs:28): the line enters the channel when there is room; the
\* sender waits while the channel is full and gets Err once it is closed.
\* Senders that wait are served in the order of their arrival; which of two
\* waiting senders came first is left open.
InputSend(src) ==
    /\ nSent < MaxIn
    /\ ~InputClosed
    /\ HasRoom(input, InputCap)
    /\ input' = Append(input, <<src, nSent + 1, "\n">>)
    /\ entered' = Append(entered, <<src, nSent + 1, "\n">>)
    /\ nSent' = nSent + 1
    /\ UNCHANGED <<tmVars, cancel_token, outVars, relayVars, histVars, behaviour, stdinPipe,
                   writerPc, writerLine, written, guardVars, waitVars, idVars, cfgVars, takenSecond, syncVars, otherVars>>

CallerSend == InputSend("caller")

\* Lines that plugins have sent so far.
nPluginSent == Cardinality({i \in 1..Len(entered) : entered[i][1] = "plugin"})

PluginSend == nPluginSent < MaxPluginLines /\ InputSend("plugin")

\* ------------------------------------------------------------------ sync_channel_stdio

\* AsyncStdin::thread (runner.rs:266-277): the thread reads a line of the
\* console and sends it on its channel, which has no bound.
ConsoleLine ==
    /\ Len(readIn) + Len(stdinCh) < MaxTyped
    /\ stdinCh' = Append(stdinCh, <<"console", Len(readIn) + Len(stdinCh) + 1>>)
    /\ UNCHANGED <<cancel_token, tmVars, outVars, relayVars, histVars, inVars, guardVars, waitVars,
                   idVars, cfgVars, takenSecond, pumpLine, readIn, screen, otherVars>>

\* The writes of pump_stdout (runner.rs:205-212) are handed to tokio's
\* blocking pool at their first poll and return at once, so pump_stdout goes
\* from recv() to its end within one poll of the select!, and the other
\* branch is not polled meanwhile.
StdoutMidPoll == consumerPc = "processing"

\* What is left of the branch that lost a round of the select! (runner.rs:222-
\* 226): its future is dropped with what it holds, and the next round begins
\* with new futures.
Dropped(line) == NoLine

\* input.send(line.add("\n")).await went through (runner.rs:190): the line
\* is in Runner.input, pump_stdin ends and with it the round: pump_stdout's
\* future is dropped, with its place in the queue of the Mutex or its guard.
PumpStdinSent(line) ==
    /\ input' = Append(input, Append(line, "\n"))
    /\ entered' = Append(entered, Append(line, "\n"))
    /\ pumpLine' = NoLine
    /\ consumerPc' = "idle"
    /\ rxLock' = (IF rxLock = "consumer" THEN Free ELSE rxLock)

\* pump_stdin: stdin.next().await yielded Some(line) (runner.rs:188-189,
\* poll_next's try_recv, runner.rs:295-296) and the send is polled in the
\* same poll: it goes through when Runner.input has room, else pump_stdin
\* waits with the line in hand.
PumpStdinNext ==
    /\ ~StdoutMidPoll
    /\ pumpLine = NoLine
    /\ stdinCh # << >>
    /\ ~InputClosed
    /\ stdinCh' = Tail(stdinCh)
    /\ readIn' = Append(readIn, Head(stdinCh))
    /\ IF HasRoom(input, InputCap)
       THEN PumpStdinSent(Head(stdinCh))
       ELSE /\ pumpLine' = Head(stdinCh)
            /\ UNCHANGED <<input, entered, consumerPc, rxLock>>
    /\ UNCHANGED <<cancel_token, tmVars, outVars, plugins, nRegister, relayPc, relayPlugins,
                   foldRest, value, rx, rxHandle, histVars, behaviour, stdinPipe, writerPc,
                   writerLine, nSent, written, guardVars, waitVars, idVars, cfgVars, takenSecond,
                   screen, otherVars>>

\* pump_stdin: the send that waited goes through, Runner.input has room.
PumpStdinSend ==
    /\ ~StdoutMidPoll
    /\ pumpLine # NoLine
    /\ ~InputClosed
    /\ HasRoom(input, InputCap)
    /\ PumpStdinSent(pumpLine)
    /\ UNCHANGED <<cancel_token, tmVars, outVars, plugins, nRegister, relayPc, relayPlugins,
                   foldRest, value, rx, rxHandle, histVars, behaviour, stdinPipe, writerPc,
                   writerLine, nSent, written, guardVars, waitVars, idVars, cfgVars, takenSecond,
                   stdinCh, readIn, screen, otherVars>>

\* pump_stdout: the line is written to the console (runner.rs:205-212), the
\* match ends and drops the guard.  pump_stdout ends and with it the round:
\* pump_stdin's future is dropped.
PumpStdoutDone ==
    /\ consumerPc = "processing"
    /\ screen' = Append(screen, consumed[Len(consumed)])
    /\ rxLock' = Free
    /\ consumerPc' = "idle"
    /\ pumpLine' = Dropped(pumpLine)
    /\ UNCHANGED <<cancel_token, tmVars, outVars, plugins, nRegister, relayPc, relayPlugins,
                   foldRest, value, rx, rxHandle, histVars, inVars, guardVars, waitVars, idVars,
                   cfgVars, takenSecond, stdinCh, readIn, otherVars>>

\* pipeline: the fold calls ExamplePlugin (mod.rs:100-102, raw.rs:12-37): for a
\* chat message that begins with '.' it awaits sender.send(msg) on Runner.input
\* (raw.rs:28), which waits while the channel is full and fails once it is
\* closed (the error is logged, raw.rs:30-32); then it returns the line.
PipelineExamplePlugin ==
    /\ relayPc = "plugin"
    /\ foldRest # << >>
    /\ Head(foldRest) = ExamplePlugin
    /\ IF IsDotCommand(value) /\ ~InputClosed
       THEN /\ HasRoom(input, InputCap)
            /\ input' = Append(input, <<"plugin", nSent + 1, "\n">>)
            /\ entered' = Append(entered, <<"plugin", nSent + 1, "\n">>)
            /\ nSent' = nSent + 1
       ELSE UNCHANGED <<input, entered, nSent>>
    /\ value' = process(Head(foldRest), value)
    /\ foldRest' = Remaining(foldRest, plugins)
    /\ UNCHANGED <<tmVars, cancel_token, outVars, plugins, nRegister, relayPc, relayPlugins,
                   rx, rxLock, consumerPc, rxHandle, histVars, behaviour, stdinPipe, writerPc,
                   writerLine, written, guardVars, waitVars, idVars, cfgVars, takenSecond, syncVars, otherVars>>

\* ------------------------------------------------------------------ stdin-writer

\* select! branch `Some(line) = stdin_rx.recv()` (runner.rs:119).
WriterRecv ==
    /\ writerPc = "select"
    /\ input # << >>
    /\ writerLine' = Recv(input)
    /\ input' = Rest(input)
    /\ writerPc' = "write"
    /\ UNCHANGED <<tmVars, cancel_token, outVars, relayVars, histVars, behaviour, stdinPipe, nSent,
                   entered, written, guardVars, waitVars, idVars, cfgVars, takenSecond, syncVars, otherVars>>

\* recv_input (runner.rs:51-59): child_stdin.write_all(line.as_bytes()).await?
\* The write waits while the pipe is full and fails once the child is gone;
\* the failure ends the task (`?`, runner.rs:119).
WriterWrite ==
    /\ writerPc = "write"
    /\ \/ /\ Alive(childState)
          /\ Len(stdinPipe) < StdinPipeCap
          /\ stdinPipe' = Append(stdinPipe, writerLine)
          /\ written' = Append(written, writerLine)
          /\ writerPc' = "select"
       \/ /\ Dead(childState)
          /\ writerPc' = "failed"
          /\ UNCHANGED <<stdinPipe, written>>
    /\ writerLine' = NoLine
    /\ UNCHANGED <<tmVars, cancel_token, outVars, relayVars, histVars, behaviour, input, nSent,
                   entered, guardVars, waitVars, idVars, cfgVars, takenSecond, syncVars, otherVars>>

\* select! branch `_ = t.cancelled() => break` (runner.rs:120).
WriterCancelled ==
    /\ writerPc = "select"
    /\ cancel_token
    /\ writerPc' = "done"
    /\ UNCHANGED <<tmVars, cancel_token, outVars, relayVars, histVars, behaviour, stdinPipe, input,
                   writerLine, nSent, entered, written, guardVars, waitVars, idVars, cfgVars, takenSecond, syncVars, otherVars>>

\* ------------------------------------------------------------------ kill_with_timeout

Timeouts == 0..MaxT

\* The exit-guard still holds the receiving half of the stop oneshot.
StopReceiverAlive == stopCh = "empty"

\* What a call leaves in Runner.stop: take() leaves None behind (runner.rs:165).
TakeStopKeep(st) == st
TakeStop(st) == "none"

\* kill_with_timeout (runner.rs:161-170).
kill_with_timeout(T) ==
    /\ Len(killLog) < MaxKills
    /\ stop' = TakeStop(stop)
    /\ IF stop = "some"
       THEN IF StopReceiverAlive
            THEN /\ stopCh' = "value"
                 /\ stopT' = T
                 /\ sinceStop' = 0
                 /\ killLog' = Append(killLog, [result |-> "ok", live |-> guardPc = "select"])
            ELSE /\ killLog' = Append(killLog, [result |-> "send_failed",
                                                live |-> guardPc = "select"])
                 /\ UNCHANGED <<stopCh, stopT, sinceStop>>
       ELSE /\ killLog' = Append(killLog, [result |-> "repeated", live |-> guardPc = "select"])
            /\ UNCHANGED <<stopCh, stopT, sinceStop>>
    /\ UNCHANGED <<tmVars, cancel_token, outVars, relayVars, histVars, inVars, guardPc, graceLeft,
                   exit, killedAt, waitVars, idVars, cfgVars, takenSecond, syncVars, otherVars>>

Kill == \E T \in Timeouts : kill_with_timeout(T)

\* A call of kill_with_timeout has succeeded.
StopAccepted == \E i \in 1..Len(killLog) : killLog[i].result = "ok"

\* ------------------------------------------------------------------ exit-guard

\* select! branch `time = stop_rx` (runner.rs:142): the stop request arrived.
GuardStop ==
    /\ guardPc = "select"
    /\ stopCh = "value"
    /\ stopCh' = "taken"
    /\ guardPc' = "send"
    /\ UNCHANGED <<tmVars, cancel_token, outVars, relayVars, histVars, inVars, stop, stopT,
                   graceLeft, exit, sinceStop, killLog, killedAt, waitVars, idVars, cfgVars, takenSecond, syncVars, otherVars>>

\* select! branch `_ = watch(&mut child)` (runner.rs:105-112, 143): try_wait
\* reported the exit; the select! ends and drops stop_rx.
GuardWatch ==
    /\ guardPc = "select"
    /\ Dead(childState)
    /\ stopCh' = "rx_dropped"
    /\ guardPc' = "wait"
    /\ UNCHANGED <<tmVars, cancel_token, outVars, relayVars, histVars, inVars, stop, stopT,
                   graceLeft, exit, sinceStop, killLog, killedAt, waitVars, idVars, cfgVars, takenSecond, syncVars, otherVars>>

\* stop (runner.rs:85-98): stdin_tx.send("stop\n").await, its result ignored,
\* then the first poll of timeout(time, loop { try_wait .. sleep }).
GuardSend ==
    /\ guardPc = "send"
    /\ \/ /\ InputClosed
          /\ UNCHANGED <<input, entered>>
       \/ /\ ~InputClosed
          /\ HasRoom(input, InputCap)
          /\ input' = Append(input, StopLine)
          /\ entered' = Append(entered, StopLine)
    /\ IF Dead(childState)
       THEN guardPc' = "wait" /\ UNCHANGED graceLeft
       ELSE guardPc' = "grace" /\ graceLeft' = stopT
    /\ UNCHANGED <<tmVars, cancel_token, outVars, relayVars, histVars, behaviour, stdinPipe,
                   writerPc, writerLine, nSent, written, stop, stopCh, stopT, exit,
                   sinceStop, killLog, killedAt, waitVars, idVars, cfgVars, takenSecond, syncVars, otherVars>>

\* stop: a later poll of the loop finds the child exited: graceful.
GuardGraceExit ==
    /\ guardPc = "grace"
    /\ Dead(childState)
    /\ guardPc' = "wait"
    /\ UNCHANGED <<tmVars, cancel_token, outVars, relayVars, histVars, inVars, stop, stopCh, stopT,
                   graceLeft, exit, sinceStop, killLog, killedAt, waitVars, idVars, cfgVars, takenSecond, syncVars, otherVars>>

\* When timeout(time, ..) gives up: once its deadline has passed.
DeadlinePassedAtOnce(left) == TRUE
DeadlinePassed(left) == left = 0

\* stop (runner.rs:99-102): the timeout elapsed; child.start_kill(), its
\* result ignored.
GuardGraceKill ==
    /\ guardPc = "grace"
    /\ DeadlinePassed(graceLeft)
    /\ childState' = (IF Alive(childState) THEN "killed" ELSE childState)
    /\ killedAt' = <<sinceStop>>
    /\ guardPc' = "wait"
    /\ UNCHANGED <<tmVars, cancel_token, nEmitted, stdoutPipe, readerPc, readerLine, output,
                   relayVars, histVars, inVars, stop, stopCh, stopT, graceLeft, exit,
                   sinceStop, killLog, waitVars, idVars, cfgVars, takenSecond, syncVars, otherVars>>

\* The Runner is dropped by its owner without a stop request: the stop sender
\* in Runner.stop (runner.rs:25, 155) is dropped unused.  The child is not
\* killed by the drop (no kill_on_drop, runner.rs:32-36).
DropRunner ==
    /\ stop = "some"
    /\ stopCh = "empty"
    /\ stop' = "none"
    /\ stopCh' = "tx_dropped"
    /\ UNCHANGED <<tmVars, cancel_token, outVars, relayVars, histVars, inVars, stopT, guardPc,
                   graceLeft, exit, sinceStop, killLog, killedAt, waitVars, idVars, cfgVars, takenSecond, syncVars, otherVars>>

\* select! branch `time = stop_rx => stop(.., time?)` (runner.rs:142): the
\* receiver resolves to Err(RecvError) when its sender is gone; `time?`
\* returns the error from the task, which drops exit_tx.
GuardStopClosed ==
    /\ guardPc = "select"
    /\ stopCh = "tx_dropped"
    /\ guardPc' = "failed"
    /\ exit' = (IF exit = <<"pending">> THEN <<"closed">> ELSE exit)
    /\ UNCHANGED <<tmVars, cancel_token, outVars, relayVars, histVars, inVars, stop, stopCh, stopT,
                   graceLeft, sinceStop, killLog, killedAt, waitVars, idVars, cfgVars, takenSecond, syncVars, otherVars>>

\* Where stop goes after child.start_kill() returned Err (runner.rs:99-102):
\* `let _ =` drops the result, stop returns and the guard goes on to
\* child.wait() (runner.rs:145).
AfterKillError == "wait"

\* stop (runner.rs:99-102): the timeout elapsed and child.start_kill() fails;
\* the child is as it was.
GuardGraceKillFails ==
    /\ guardPc = "grace"
    /\ DeadlinePassed(graceLeft)
    /\ Alive(childState)
    /\ guardPc' = AfterKillError
    /\ UNCHANGED <<tmVars, cancel_token, outVars, relayVars, histVars, inVars, stop, stopCh, stopT,
                   graceLeft, exit, sinceStop, killLog, killedAt, waitVars, idVars, cfgVars, takenSecond, syncVars, otherVars>>

\* child.wait().await?; exit_tx.send(status) (runner.rs:145-147).
GuardWait ==
    /\ guardPc = "wait"
    /\ Dead(childState)
    /\ exit' = <<"status", ExitStatusOf(childState)>>
    /\ guardPc' = "done"
    /\ UNCHANGED <<tmVars, cancel_token, outVars, relayVars, histVars, inVars, stop, stopCh, stopT,
                   graceLeft, sinceStop, killLog, killedAt, waitVars, idVars, cfgVars, takenSecond, syncVars, otherVars>>

\* ------------------------------------------------------------------ wait

Waiters == {"w1", "w2"}

\* A caller starts wait(): self.exit.lock().await (runner.rs:174).  A caller
\* whose earlier call returned may call again.
WaitCall(w) ==
    /\ waitPc[w] \in {"idle", "ok", "err"}
    /\ waitPc' = [waitPc EXCEPT ![w] = "lock"]
    /\ UNCHANGED <<tmVars, cancel_token, outVars, relayVars, histVars, inVars, guardVars, exitLock,
                   waitGot, idVars, cfgVars, takenSecond, syncVars, otherVars>>

WaitLock(w) ==
    /\ waitPc[w] = "lock"
    /\ exitLock = Free
    /\ exitLock' = w
    /\ waitPc' = [waitPc EXCEPT ![w] = "await"]
    /\ UNCHANGED <<tmVars, cancel_token, outVars, relayVars, histVars, inVars, guardVars, waitGot, idVars, cfgVars, takenSecond, syncVars, otherVars>>

\* What polling the oneshot receiver gives (rx.await, runner.rs:176):
\* the value once, Err(RecvError) when the sender was dropped, and a panic
\* ("called after complete") when the receiver already yielded its value.
PollExit(e) ==
    IF e = <<"closed">> THEN "err"
    ELSE IF e = <<"consumed">> THEN "panic"
    ELSE IF e = <<"pending">> THEN "pending"
    ELSE "ok"

\* wait (runner.rs:173-177): the poll of the receiver under the lock; the
\* guard is dropped when the call ends, also by a panic.
WaitPoll(w) ==
    /\ waitPc[w] = "await"
    /\ PollExit(exit) # "pending"
    /\ waitPc' = [waitPc EXCEPT ![w] = PollExit(exit)]
    /\ IF PollExit(exit) = "ok"
       THEN /\ waitGot' = [waitGot EXCEPT ![w] = exit[2]]
            /\ exit' = <<"consumed">>
       ELSE UNCHANGED <<waitGot, exit>>
    /\ exitLock' = Free
    /\ UNCHANGED <<tmVars, cancel_token, outVars, relayVars, histVars, inVars, stop, stopCh, stopT,
                   guardPc, graceLeft, sinceStop, killLog, killedAt, idVars, cfgVars, takenSecond, syncVars, otherVars>>

\* The caller drops the future of a pending wait() (the select! of start,
\* start.rs:61-69, when ctrl_c wins).
WaitDrop(w) ==
    /\ waitPc[w] \in {"lock", "await"}
    /\ exitLock' = (IF exitLock = w THEN Free ELSE exitLock)
    /\ waitPc' = [waitPc EXCEPT ![w] = "idle"]
    /\ UNCHANGED <<tmVars, cancel_token, outVars, relayVars, histVars, inVars, guardVars, waitGot, idVars, cfgVars, takenSecond, syncVars, otherVars>>

Wait == \E w \in Waiters : WaitCall(w) \/ WaitLock(w) \/ WaitPoll(w) \/ WaitDrop(w)

\* ------------------------------------------------------------------ spawn_server, the ids

Spawners == {"s1", "s2"}

\* What NEXT_RUNNER_ID.fetch_add(1, Ordering::Relaxed) leaves in the counter
\* (runner.rs:40); the call returns the value it found.  A usize does not
\* wrap within the spawns of a run.
FetchKeep(n) == n
FetchAdd(n) == n + 1

\* spawn_server is called (runner.rs:31-36): server.start()?...spawn()? either
\* starts the child or fails, before any id is taken.
SpawnChild(s) ==
    /\ spawnPc[s] \in {"idle", "ok", "failed"}
    /\ nSpawns < MaxSpawns
    /\ nSpawns' = nSpawns + 1
    /\ \E r \in {"child", "failed"} :
          /\ spawnPc' = [spawnPc EXCEPT ![s] = r]
          /\ spawnLeft' = [spawnLeft EXCEPT ![s] = [child |-> r = "child", loops |-> 0]]
    /\ spawnId' = [spawnId EXCEPT ![s] = 0]
    /\ UNCHANGED <<cancel_token, tmVars, outVars, relayVars, histVars, inVars, guardVars, waitVars,
                   NEXT_RUNNER_ID, idLog, runners, cfgVars, takenSecond, syncVars, otherVars>>

\* let id = NEXT_RUNNER_ID.fetch_add(1, Ordering::Relaxed) (runner.rs:39-40):
\* one atomic read-modify-write.
SpawnFetchId(s) ==
    /\ spawnPc[s] = "child"
    /\ spawnId' = [spawnId EXCEPT ![s] = NEXT_RUNNER_ID]
    /\ idLog' = Append(idLog, NEXT_RUNNER_ID)
    /\ NEXT_RUNNER_ID' = FetchAdd(NEXT_RUNNER_ID)
    /\ spawnPc' = [spawnPc EXCEPT ![s] = "id"]
    /\ UNCHANGED <<cancel_token, tmVars, outVars, relayVars, histVars, inVars, guardVars, waitVars,
                   nSpawns, runners, spawnLeft, cfgVars, takenSecond, syncVars, otherVars>>

\* The loops of a Runner, in the order spawn_server submits them
\* (runner.rs:114-149).
LoopOrder == <<"stdin-writer", "stdout-reader", "exit-guard">>

\* What a call that returns an error leaves of the child it started: the
\* Child is dropped with the futures that own it, and dropping a Child does
\* not kill the process (no kill_on_drop, runner.rs:32-36).
ChildOnError(child) == child

\* The rest of spawn_server (runner.rs:42-157): the pipes are taken and the
\* three tasks submitted; a submission fails (`?`) once the coordinator of
\* the TaskManager has exited, which leaves the loops submitted before it.  On
\* success the Runner is returned with the id.
SpawnReturn(s) ==
    /\ spawnPc[s] = "id"
    /\ \E k \in 0..Len(LoopOrder) :
          IF k = Len(LoopOrder)
          THEN /\ spawnPc' = [spawnPc EXCEPT ![s] = "ok"]
               /\ runners' = Append(runners, spawnId[s])
               /\ spawnLeft' = [spawnLeft EXCEPT ![s] = [child |-> TRUE, loops |-> k]]
          ELSE /\ spawnPc' = [spawnPc EXCEPT ![s] = "failed"]
               /\ spawnLeft' = [spawnLeft EXCEPT ![s] =
                                   [child |-> ChildOnError(spawnLeft[s].child), loops |-> k]]
               /\ UNCHANGED runners
    /\ UNCHANGED <<cancel_token, tmVars, outVars, relayVars, histVars, inVars, guardVars, waitVars,
                   NEXT_RUNNER_ID, spawnId, nSpawns, idLog, cfgVars, takenSecond, syncVars, otherVars>>

spawn_server == \E s \in Spawners : SpawnChild(s) \/ SpawnFetchId(s) \/ SpawnReturn(s)

\* ------------------------------------------------------------------ daemon Config

\* Strings are sequences of characters.  The characters of the paths:
\* the separator and two letters.
PathChars == {"/", "a", "b"}
Paths == UNION {[1..k -> PathChars] : k \in 0..MaxPathLen}

\* std::net::SocketAddr values, IP:Port, and their text.
TcpAddrs == [ip : {"1"}, port : {"8", "9"}]
to_string(addr) == <<addr.ip, ":", addr.port>>
\* s.parse::<TcpAddr>() (config.rs:49)
parse(s) ==
    IF Len(s) = 3 /\ s[2] = ":" /\ [ip |-> s[1], port |-> s[3]] \in TcpAddrs
    THEN [ok |-> TRUE, addr |-> [ip |-> s[1], port |-> s[3]]]
    ELSE [ok |-> FALSE]

\* enum ApiAddr (config.rs:25-31)
UnixSocket(path) == [kind |-> "UnixSocket", path |-> path]
Tcp(addr) == [kind |-> "Tcp", addr |-> addr]
ApiAddrs == {UnixSocket(p) : p \in Paths} \cup {Tcp(a) : a \in TcpAddrs}

\* str::strip_prefix: whether s starts with pre, and what follows it.
starts_with(s, pre) == Len(s) >= Len(pre) /\ SubSeq(s, 1, Len(pre)) = pre
strip_prefix(s, pre) == SubSeq(s, Len(pre) + 1, Len(s))

\* impl Serialize for ApiAddr (config.rs:63-80):
\* format!("unix:/{}", path.display()), or addr.to_string().
serialize(a) ==
    IF a.kind = "UnixSocket"
    THEN <<"u", "n", "i", "x", ":", "/">> \o a.path
    ELSE to_string(a.addr)

\* impl Deserialize for ApiAddr (config.rs:34-61): the prefix "unix://" is
\* tried first, then "unix:/"; then a TCP address; then any non-empty string
\* is a path.
deserialize(s) ==
    IF starts_with(s, <<"u", "n", "i", "x", ":", "/", "/">>)
    THEN [ok |-> TRUE, val |-> UnixSocket(strip_prefix(s, <<"u", "n", "i", "x", ":", "/", "/">>))]
    ELSE IF starts_with(s, <<"u", "n", "i", "x", ":", "/">>)
    THEN [ok |-> TRUE, val |-> UnixSocket(strip_prefix(s, <<"u", "n", "i", "x", ":", "/">>))]
    ELSE IF parse(s).ok
    THEN [ok |-> TRUE, val |-> Tcp(parse(s).addr)]
    ELSE IF s # << >>
    THEN [ok |-> TRUE, val |-> UnixSocket(s)]
    ELSE [ok |-> FALSE]

\* enum SaveSpace (config.rs:90-95): a unit variant is written as its name.
SaveSpace == {"Disable", "BindRuntime", "OverlayFS"}
\* Option<bool>: << >> is None, <<b>> is Some(b).
OptionBool == {<< >>, <<TRUE>>, <<FALSE>>}
WorkDirs == {<<"/", "a">>, <<"a">>}

\* struct Config (config.rs:10-16, 19-23, 83-89, 98-108): api.listen,
\* storage.work_dir, storage.save_space, security.permissive.  The integers
\* and the tokens are TOML values of their own type, written and read as such.
Configs == [listen : ApiAddrs, work_dir : WorkDirs, save_space : SaveSpace, permissive : OptionBool]

\* Config::default() on Linux (config.rs:179-226): work_dir is $HOME/.pacmine
\* and the socket is work_dir/api.sock.
DefaultConfig ==
    [listen |-> UnixSocket(<<"/", "a", "/", "b">>), work_dir |-> <<"/", "a">>,
     save_space |-> "BindRuntime", permissive |-> <<FALSE>>]

\* toml::to_string_pretty(self) (config.rs:129): the document, one value per
\* key; a None leaves its key out (<< >>).
to_string_pretty(c) ==
    [listen |-> serialize(c.listen), work_dir |-> c.work_dir,
     save_space |-> c.save_space, permissive |-> c.permissive]

\* toml::from_str(&content) (config.rs:123)
from_str(doc) ==
    IF deserialize(doc.listen).ok /\ doc.save_space \in SaveSpace
    THEN [ok |-> TRUE,
          val |-> [listen |-> deserialize(doc.listen).val, work_dir |-> doc.work_dir,
                   save_space |-> doc.save_space, permissive |-> doc.permissive]]
    ELSE [ok |-> FALSE]

\* Config::to_file (config.rs:128-132)
to_file ==
    /\ cfgPc = "new"
    /\ file' = to_string_pretty(config)
    /\ cfgPc' = "written"
    /\ UNCHANGED <<cancel_token, tmVars, outVars, relayVars, histVars, inVars, guardVars, waitVars,
                   idVars, config, loaded, takenSecond, syncVars, otherVars>>

\* Config::from_file (config.rs:121-125)
from_file ==
    /\ cfgPc = "written"
    /\ loaded' = <<from_str(file)>>
    /\ cfgPc' = "read"
    /\ UNCHANGED <<cancel_token, tmVars, outVars, relayVars, histVars, inVars, guardVars, waitVars,
                   idVars, config, file, takenSecond, syncVars, otherVars>>

\* std::path::Path equality compares the components: whether the path has a
\* root, and its names (repeated and trailing separators do not count).
RECURSIVE Names(_, _)
Names(rest, cur) ==
    IF rest = << >>
    THEN (IF cur = << >> THEN << >> ELSE <<cur>>)
    ELSE IF Head(rest) = "/"
    THEN (IF cur = << >> THEN << >> ELSE <<cur>>) \o Names(Tail(rest), << >>)
    ELSE Names(Tail(rest), Append(cur, Head(rest)))

Components(p) == [root |-> (p # << >> /\ p[1] = "/"), names |-> Names(p, << >>)]

SamePath(p, q) == Components(p) = Components(q)

SameApiAddr(a, b) ==
    /\ a.kind = b.kind
    /\ a.kind = "UnixSocket" => SamePath(a.path, b.path)
    /\ a.kind = "Tcp" => a.addr = b.addr

SameConfig(a, b) ==
    /\ SameApiAddr(a.listen, b.listen)
    /\ SamePath(a.work_dir, b.work_dir)
    /\ a.save_space = b.save_space
    /\ a.permissive = b.permissive

\* ------------------------------------------------------------------ clock

\* One tick of the clock: the time since the stop request grows and the
\* deadline of the guard's timeout comes nearer.
Tick ==
    /\ \/ StopAccepted /\ sinceStop < MaxT
       \/ guardPc = "grace" /\ graceLeft > 0
    /\ sinceStop' = (IF StopAccepted /\ sinceStop < MaxT THEN sinceStop + 1 ELSE sinceStop)
    /\ graceLeft' = (IF guardPc = "grace" /\ graceLeft > 0 THEN graceLeft - 1 ELSE graceLeft)
    /\ UNCHANGED <<tmVars, cancel_token, outVars, relayVars, histVars, inVars, stop, stopCh, stopT,
                   guardPc, exit, killLog, killedAt, waitVars, idVars, cfgVars, takenSecond, syncVars, otherVars>>

\* ------------------------------------------------------------------ shutdown, seen by the loops

\* TaskManager::shutdown, first step: self.cancel_token.cancel() (task.rs:108).
TokenCancel ==
    /\ ~cancel_token
    /\ cancel_token' = TRUE
    /\ UNCHANGED <<tmVars, outVars, relayVars, histVars, runVars>>

AbortPc(pc) == IF Ended(pc) \/ pc = "unloaded" THEN pc ELSE "aborted"

\* TaskManager::shutdown, second step: JoinSet::shutdown() aborts every
\* tracked task that has not ended (task.rs:109).  An aborted task drops what
\* it owns: the exit-guard its stop receiver and its exit sender.
AbortLoops ==
    /\ cancel_token
    /\ ~Ended(readerPc) \/ ~Ended(relayPc) \/ ~Ended(writerPc) \/ ~Ended(guardPc)
    /\ readerPc' = AbortPc(readerPc)
    /\ relayPc' = AbortPc(relayPc)
    /\ writerPc' = AbortPc(writerPc)
    /\ guardPc' = AbortPc(guardPc)
    /\ stopCh' = (IF Ended(guardPc) THEN stopCh ELSE "rx_dropped")
    /\ exit' = (IF ~Ended(guardPc) /\ exit = <<"pending">> THEN <<"closed">> ELSE exit)
    /\ UNCHANGED <<tmVars, cancel_token, childState, nEmitted, stdoutPipe, readerLine, output,
                   plugins, nRegister, relayPlugins, foldRest, value, rx, rxLock, consumerPc, rxHandle, histVars,
                   behaviour, stdinPipe, input, writerLine, nSent, entered, written,
                   stop, stopT, graceLeft, sinceStop, killLog, killedAt, waitVars, idVars, cfgVars, takenSecond, syncVars, otherVars>>

\* ------------------------------------------------------------------ BackupManager

BackupIds == 1..MaxBackupId
ApiCallers == 1..MaxApiCallers
ApiOps == {"register", "register_no_cron", "remove", "run_now"}
IdleCall == [op |-> "none", id |-> 0, pc |-> "idle", res |-> "none"]

\* Whoever waits in schedule.lock().await: backup_thread at the head of its
\* match (mod.rs:119), backup_thread before its push_back (mod.rs:139), or a
\* caller of register, remove or run_now (mod.rs:96, 101, 107), each with the
\* number that stands for it in the queue of the Mutex.
AtPop == 0
AtPush == MaxApiCallers + 1

\* register, remove or run_now is called (mod.rs:83, 100, 103) and comes to
\* schedule.lock().await; a register whose BackupCfg has no cron line returns
\* without touching the schedule (mod.rs:89).
ApiCall(c) ==
    /\ apiPc[c].pc \in {"idle", "returned"}
    /\ nApi < MaxApi
    /\ nApi' = nApi + 1
    /\ \E op \in ApiOps, id \in BackupIds :
          IF op = "register_no_cron"
          THEN /\ apiPc' = [apiPc EXCEPT ![c] = [op |-> op, id |-> id, pc |-> "returned",
                                                 res |-> "ok"]]
               /\ UNCHANGED bkQueue
          ELSE /\ apiPc' = [apiPc EXCEPT ![c] = [op |-> op, id |-> id, pc |-> "lock",
                                                 res |-> "none"]]
               /\ bkQueue' = Append(bkQueue, c)
    /\ UNCHANGED <<cancel_token, tmVars, outVars, relayVars, histVars, inVars, guardVars, waitVars,
                   idVars, cfgVars, takenSecond, syncVars, restVars, bkSchedule, bkLock, bkPc, bkTask,
                   bkRan, bkGone>>

\* backup_thread: `while !t.is_cancelled()` (mod.rs:118), then
\* self.schedule.lock().await (mod.rs:119).
BackupHead ==
    /\ bkPc = "head"
    /\ IF cancel_token
       THEN bkPc' = "done" /\ UNCHANGED bkQueue
       ELSE bkPc' = "lock" /\ bkQueue' = Append(bkQueue, AtPop)
    /\ UNCHANGED <<cancel_token, tmVars, outVars, relayVars, histVars, inVars, guardVars, waitVars,
                   idVars, cfgVars, takenSecond, syncVars, restVars, bkSchedule, bkLock, bkTask, apiPc,
                   nApi, bkRan, bkGone>>

\* The holder of the schedule's Mutex once pop_front() has returned
\* (mod.rs:119-141): the guard is a temporary of the match's scrutinee, and
\* lives to the end of the match.
GuardDroppedAfterPop(holder) == Free
GuardAfterPop(holder) == holder

\* retain(|x| x.id != id) (mod.rs:101).
retain(sched, id) == SelectSeq(sched, LAMBDA x : x # id)

\* iter().find(|x| x.id == id).context("No such task") (mod.rs:109-111).
find(sched, id) == IF \E i \in 1..Len(sched) : sched[i] = id THEN "ok" ELSE "err"

\* The Mutex hands the lock to the one that has waited longest, which runs
\* what it does under the lock:
\*  - backup_thread, pop_front() (mod.rs:119): None keeps the guard over the
\*    sleep of one second, Some(t) keeps it over the rest of the match;
\*  - backup_thread, push_back(task) (mod.rs:139), then the match ends and the
\*    guards are dropped;
\*  - register: push_back(task) (mod.rs:96); remove: retain (mod.rs:101);
\*    run_now: find, then the snapshot (mod.rs:104-115); the guard is dropped
\*    at the end of the statement and the call returns.
LockGranted ==
    /\ bkLock = Free
    /\ bkQueue # << >>
    /\ bkQueue' = Tail(bkQueue)
    /\ LET w == Head(bkQueue)
       IN CASE w = AtPop ->
                 /\ IF bkSchedule = << >>
                    THEN /\ bkPc' = "sleep"
                         /\ bkLock' = "thread"
                         /\ UNCHANGED <<bkSchedule, bkTask>>
                    ELSE /\ bkPc' = "due"
                         /\ bkTask' = Head(bkSchedule)
                         /\ bkSchedule' = Tail(bkSchedule)
                         /\ bkLock' = GuardAfterPop("thread")
                 /\ UNCHANGED <<apiPc, bkGone>>
            [] w = AtPush ->
                 /\ bkSchedule' = Append(bkSchedule, bkTask)
                 /\ bkTask' = 0
                 /\ bkPc' = "head"
                 /\ bkLock' = Free
                 /\ UNCHANGED <<apiPc, bkGone>>
            [] OTHER ->
                 /\ bkSchedule' = (CASE apiPc[w].op = "register" -> Append(bkSchedule, apiPc[w].id)
                                     [] apiPc[w].op = "remove" -> retain(bkSchedule, apiPc[w].id)
                                     [] OTHER -> bkSchedule)
                 /\ bkGone' = (CASE apiPc[w].op = "register" -> bkGone \ {apiPc[w].id}
                                 [] apiPc[w].op = "remove" -> bkGone \cup {apiPc[w].id}
                                 [] OTHER -> bkGone)
                 /\ apiPc' = [apiPc EXCEPT ![w].pc = "returned",
                                           ![w].res = (CASE apiPc[w].op = "run_now" ->
                                                             find(bkSchedule, apiPc[w].id)
                                                         [] apiPc[w].op = "remove" ->
                                                             IF retain(bkSchedule, apiPc[w].id) = bkSchedule
                                                             THEN "absent" ELSE "removed"
                                                         [] OTHER -> "ok")]
                 /\ UNCHANGED <<bkLock, bkPc, bkTask>>
    /\ UNCHANGED <<cancel_token, tmVars, outVars, relayVars, histVars, inVars, guardVars, waitVars,
                   idVars, cfgVars, takenSecond, syncVars, restVars, nApi, bkRan>>

\* backup_thread, None arm (mod.rs:120-124): sleep(1 s) is over, `continue`
\* ends the match and drops the guard.
BackupSleepDone ==
    /\ bkPc = "sleep"
    /\ bkPc' = "head"
    /\ bkLock' = Free
    /\ UNCHANGED <<cancel_token, tmVars, outVars, relayVars, histVars, inVars, guardVars, waitVars,
                   idVars, cfgVars, takenSecond, syncVars, restVars, bkSchedule, bkQueue, bkTask, apiPc,
                   nApi, bkRan, bkGone>>

\* backup_thread, Some arm (mod.rs:125-139): the due time has come
\* (sleep_until is over or was not needed), the snapshot is handed to
\* spawn_blocking, and self.schedule.lock().await is called for push_back.
BackupDue ==
    /\ bkPc = "due"
    /\ bkRan' = Append(bkRan, bkTask)
    /\ bkQueue' = Append(bkQueue, AtPush)
    /\ bkPc' = "relock"
    /\ UNCHANGED <<cancel_token, tmVars, outVars, relayVars, histVars, inVars, guardVars, waitVars,
                   idVars, cfgVars, takenSecond, syncVars, restVars, bkSchedule, bkLock, bkTask, apiPc,
                   nApi, bkGone>>

\* ------------------------------------------------------------------ terminal mode

HelperLoops == {"stdout", "stderr", "stdin"}

\* start_server has spawned backup_thread and server_thread_with_terminal and
\* waits in its select! (run.rs:41-61); the server thread has spawned the
\* print loop and the console input loop (run.rs:99-134) and is starting the
\* child and its three loops (run.rs:152-268).
InitTerminal ==
    /\ startPc = "select"
    /\ srvPc = "startup"
    /\ helperPc = [l \in HelperLoops |-> "wait"]
    /\ printPc = "recv"
    /\ consolePc = "select"
    /\ bkupPc = "init"
    /\ woken = {}
    /\ stopRaised = FALSE

\* The tasks that have a stop.notified() future alive: each one creates it in
\* its select! and drops it when the select! ends (run.rs:55-56, 104-105,
\* 121-122, 219-220, 240-241, 258-259, 271-272, 394).
Listening ==
    {l \in HelperLoops : helperPc[l] = "select"}
        \cup (IF startPc = "select" THEN {"start_server"} ELSE {})
        \cup (IF srvPc = "select" THEN {"server_thread"} ELSE {})
        \cup (IF printPc = "select" THEN {"print"} ELSE {})
        \cup (IF consolePc = "select" THEN {"console"} ELSE {})
        \cup (IF bkupPc = "wait" THEN {"backup_thread"} ELSE {})

\* Notify::notify_waiters() (run.rs:59, 289): the futures that wait now are
\* notified; no permit is kept for a notified() created later.
notify_waiters == woken \cup Listening

\* start_server: `_ = signal::ctrl_c()` (run.rs:57-60).
CtrlC ==
    /\ startPc = "select"
    /\ woken' = notify_waiters \ {"start_server"}
    /\ stopRaised' = TRUE
    /\ startPc' = "join"
    /\ UNCHANGED <<cancel_token, tmVars, outVars, relayVars, histVars, inVars, guardVars, waitVars,
                   idVars, cfgVars, takenSecond, syncVars, bkVars, dmVars, srvPc, helperPc,
                   printPc, consolePc, bkupPc>>

\* start_server: `_ = stop_flag.notified()` (run.rs:56).
StartNotified ==
    /\ startPc = "select"
    /\ "start_server" \in woken
    /\ startPc' = "join"
    /\ woken' = woken \ {"start_server"}
    /\ UNCHANGED <<cancel_token, tmVars, outVars, relayVars, histVars, inVars, guardVars, waitVars,
                   idVars, cfgVars, takenSecond, syncVars, bkVars, dmVars, srvPc, helperPc,
                   printPc, consolePc, bkupPc, stopRaised>>

\* server_thread_with_terminal has returned (run.rs:137-141): the server
\* thread, the print loop and the console input loop have ended.
TerminalDone == srvPc = "done" /\ printPc = "done" /\ consolePc = "done"

\* start_server: join_all(handles) (run.rs:64), then it returns (run.rs:73-80).
StartJoin ==
    /\ startPc = "join"
    /\ TerminalDone
    /\ bkupPc \in {"off", "done"}
    /\ startPc' = "returned"
    /\ UNCHANGED <<cancel_token, tmVars, outVars, relayVars, histVars, inVars, guardVars, waitVars,
                   idVars, cfgVars, takenSecond, syncVars, bkVars, dmVars, srvPc, helperPc,
                   printPc, consolePc, bkupPc, woken, stopRaised>>

\* server_thread: the child is spawned, the log files are open, the three
\* loops are spawned, and the select! begins (run.rs:152-271).
ServerReady ==
    /\ srvPc = "startup"
    /\ srvPc' = "select"
    /\ UNCHANGED <<cancel_token, tmVars, outVars, relayVars, histVars, inVars, guardVars, waitVars,
                   idVars, cfgVars, takenSecond, syncVars, bkVars, dmVars, startPc, helperPc,
                   printPc, consolePc, bkupPc, woken, stopRaised>>

\* server_thread: `_ = stop.notified()` (run.rs:272-277): "stop\n" is written
\* to the child's stdin, and child.wait() is awaited for 10 s at most.
ServerStop ==
    /\ srvPc = "select"
    /\ "server_thread" \in woken
    /\ woken' = woken \ {"server_thread"}
    /\ childState' = (IF childState = "running" /\ behaviour = "obeys"
                      THEN "stopping" ELSE childState)
    /\ srvPc' = "grace"
    /\ UNCHANGED <<cancel_token, tmVars, nEmitted, stdoutPipe, readerPc, readerLine, output,
                   relayVars, histVars, inVars, guardVars, waitVars, idVars, cfgVars, takenSecond,
                   syncVars, bkVars, dmVars, startPc, helperPc, printPc, consolePc, bkupPc,
                   stopRaised>>

\* server_thread: the child exited within the 10 s (run.rs:278-279).
ServerGraceExit ==
    /\ srvPc = "grace"
    /\ Dead(childState)
    /\ srvPc' = "cleanup"
    /\ UNCHANGED <<cancel_token, tmVars, outVars, relayVars, histVars, inVars, guardVars, waitVars,
                   idVars, cfgVars, takenSecond, syncVars, bkVars, dmVars, startPc, helperPc,
                   printPc, consolePc, bkupPc, woken, stopRaised>>

\* server_thread: the 10 s are over (run.rs:280-284): child.kill(), child.wait().
ServerGraceKill ==
    /\ srvPc = "grace"
    /\ Alive(childState)
    /\ childState' = "killed"
    /\ srvPc' = "cleanup"
    /\ UNCHANGED <<cancel_token, tmVars, nEmitted, stdoutPipe, readerPc, readerLine, output,
                   relayVars, histVars, inVars, guardVars, waitVars, idVars, cfgVars, takenSecond,
                   syncVars, bkVars, dmVars, startPc, helperPc, printPc, consolePc, bkupPc, woken,
                   stopRaised>>

\* server_thread: `status = child.wait()` (run.rs:287-291): the child has
\* exited on its own, the stop flag is raised.
ServerChildExited ==
    /\ srvPc = "select"
    /\ Dead(childState)
    /\ woken' = notify_waiters \ {"server_thread"}
    /\ stopRaised' = TRUE
    /\ srvPc' = "cleanup"
    /\ UNCHANGED <<cancel_token, tmVars, outVars, relayVars, histVars, inVars, guardVars, waitVars,
                   idVars, cfgVars, takenSecond, syncVars, bkVars, dmVars, startPc, helperPc,
                   printPc, consolePc, bkupPc>>

\* server_thread: the three loops are aborted, tx is dropped, the function
\* returns (run.rs:295-300).
ServerCleanup ==
    /\ srvPc = "cleanup"
    /\ helperPc' = [l \in HelperLoops |-> IF helperPc[l] = "done" THEN "done" ELSE "aborted"]
    /\ woken' = woken \ HelperLoops
    /\ srvPc' = "done"
    /\ UNCHANGED <<cancel_token, tmVars, outVars, relayVars, histVars, inVars, guardVars, waitVars,
                   idVars, cfgVars, takenSecond, syncVars, bkVars, dmVars, startPc, printPc,
                   consolePc, bkupPc, stopRaised>>

\* A stdout, stderr or stdin loop: read_line() or recv() yielded a line, the
\* select! begins (run.rs:218-219, 239-240, 257-258).
HelperLine(l) ==
    /\ helperPc[l] = "wait"
    /\ Alive(childState)
    /\ helperPc' = [helperPc EXCEPT ![l] = "select"]
    /\ UNCHANGED <<cancel_token, tmVars, outVars, relayVars, histVars, inVars, guardVars, waitVars,
                   idVars, cfgVars, takenSecond, syncVars, bkVars, dmVars, startPc, srvPc,
                   printPc, consolePc, bkupPc, woken, stopRaised>>

\* The select! of a loop ends with its second branch: the line is handled,
\* the notified() future is dropped and the loop waits for the next line
\* (run.rs:221-226).
HelperHandled(l) ==
    /\ helperPc[l] = "select"
    /\ helperPc' = [helperPc EXCEPT ![l] = "wait"]
    /\ woken' = woken \ {l}
    /\ UNCHANGED <<cancel_token, tmVars, outVars, relayVars, histVars, inVars, guardVars, waitVars,
                   idVars, cfgVars, takenSecond, syncVars, bkVars, dmVars, startPc, srvPc,
                   printPc, consolePc, bkupPc, stopRaised>>

\* `_ = stop_clone.notified() => break` (run.rs:220, 241, 259).
HelperBreak(l) ==
    /\ helperPc[l] = "select"
    /\ l \in woken
    /\ helperPc' = [helperPc EXCEPT ![l] = "done"]
    /\ woken' = woken \ {l}
    /\ UNCHANGED <<cancel_token, tmVars, outVars, relayVars, histVars, inVars, guardVars, waitVars,
                   idVars, cfgVars, takenSecond, syncVars, bkVars, dmVars, startPc, srvPc,
                   printPc, consolePc, bkupPc, stopRaised>>

\* The senders of the print loop's channel: tx of server_thread and its
\* clones in the stdout and stderr loops (run.rs:88, 212, 233, 298).
PrintSenders ==
    srvPc # "done" \/ \E l \in {"stdout", "stderr"} : helperPc[l] \in {"wait", "select"}

\* print loop: rx_out.recv() yielded a line, the select! begins (run.rs:103-104).
PrintLine ==
    /\ printPc = "recv"
    /\ \E l \in {"stdout", "stderr"} : helperPc[l] = "select"
    /\ printPc' = "select"
    /\ UNCHANGED <<cancel_token, tmVars, outVars, relayVars, histVars, inVars, guardVars, waitVars,
                   idVars, cfgVars, takenSecond, syncVars, bkVars, dmVars, startPc, srvPc,
                   helperPc, consolePc, bkupPc, woken, stopRaised>>

\* print loop: the line is written (run.rs:106-109), or the flag was
\* notified (run.rs:105).
PrintSelect ==
    /\ printPc = "select"
    /\ \/ printPc' = "recv"
       \/ "print" \in woken /\ printPc' = "done"
    /\ woken' = woken \ {"print"}
    /\ UNCHANGED <<cancel_token, tmVars, outVars, relayVars, histVars, inVars, guardVars, waitVars,
                   idVars, cfgVars, takenSecond, syncVars, bkVars, dmVars, startPc, srvPc,
                   helperPc, consolePc, bkupPc, stopRaised>>

\* print loop: recv() yielded None, every sender is dropped (run.rs:103).
PrintClosed ==
    /\ printPc = "recv"
    /\ ~PrintSenders
    /\ printPc' = "done"
    /\ UNCHANGED <<cancel_token, tmVars, outVars, relayVars, histVars, inVars, guardVars, waitVars,
                   idVars, cfgVars, takenSecond, syncVars, bkVars, dmVars, startPc, srvPc,
                   helperPc, consolePc, bkupPc, woken, stopRaised>>

\* console input loop: stdin.read() returned (run.rs:123-130): the select!
\* ends, its notified() future is dropped, and the loop sends the line or
\* sleeps 50 ms.
ConsoleRead ==
    /\ consolePc = "select"
    /\ consolePc' = "body"
    /\ woken' = woken \ {"console"}
    /\ UNCHANGED <<cancel_token, tmVars, outVars, relayVars, histVars, inVars, guardVars, waitVars,
                   idVars, cfgVars, takenSecond, syncVars, bkVars, dmVars, startPc, srvPc,
                   helperPc, printPc, bkupPc, stopRaised>>

\* console input loop: the send or the sleep is over, the next select! begins
\* (run.rs:120-121).
ConsoleBodyDone ==
    /\ consolePc = "body"
    /\ consolePc' = "select"
    /\ UNCHANGED <<cancel_token, tmVars, outVars, relayVars, histVars, inVars, guardVars, waitVars,
                   idVars, cfgVars, takenSecond, syncVars, bkVars, dmVars, startPc, srvPc,
                   helperPc, printPc, bkupPc, woken, stopRaised>>

\* console input loop: `_ = stop_clone.notified() => break` (run.rs:122).
ConsoleBreak ==
    /\ consolePc = "select"
    /\ "console" \in woken
    /\ consolePc' = "done"
    /\ woken' = woken \ {"console"}
    /\ UNCHANGED <<cancel_token, tmVars, outVars, relayVars, histVars, inVars, guardVars, waitVars,
                   idVars, cfgVars, takenSecond, syncVars, bkVars, dmVars, startPc, srvPc,
                   helperPc, printPc, bkupPc, stopRaised>>

\* backup_thread: the repositories are ready and the backups are set up
\* (run.rs:305-392); it waits in stop.notified() (run.rs:394).
BackupReady ==
    /\ bkupPc = "init"
    /\ bkupPc' = "wait"
    /\ UNCHANGED <<cancel_token, tmVars, outVars, relayVars, histVars, inVars, guardVars, waitVars,
                   idVars, cfgVars, takenSecond, syncVars, bkVars, dmVars, startPc, srvPc,
                   helperPc, printPc, consolePc, woken, stopRaised>>

\* backup_thread: notified (run.rs:394-405), it ends.
BackupStopped ==
    /\ bkupPc = "wait"
    /\ "backup_thread" \in woken
    /\ bkupPc' = "done"
    /\ woken' = woken \ {"backup_thread"}
    /\ UNCHANGED <<cancel_token, tmVars, outVars, relayVars, histVars, inVars, guardVars, waitVars,
                   idVars, cfgVars, takenSecond, syncVars, bkVars, dmVars, startPc, srvPc,
                   helperPc, printPc, consolePc, stopRaised>>

\* ------------------------------------------------------------------ daemon

\* No such file.
NoFile == <<"None">>
NoRequest == [op |-> "none", id |-> 0, status |-> "none", before |-> << >>]

\* Project (daemon/config.rs:237-242); the path is left out.
ProjectIds == 1..MaxProjects
Projects == [id : ProjectIds, manual : BOOLEAN]

\* The project lists a known.toml can hold when the daemon starts over an
\* existing work_dir: up to two projects, their ids ascending.
KnownLists ==
    {<< >>} \cup {<<p>> : p \in Projects}
            \cup {l \in {<<p, q>> : p \in Projects, q \in Projects} : l[2].id > l[1].id}

\* known.project.iter().map(|x| x.id).max().unwrap_or(0) + 1 (control.rs:125, 234).
RECURSIVE max_id(_)
max_id(list) ==
    IF list = << >> THEN 0
    ELSE LET m == max_id(Tail(list)) IN IF Head(list).id > m THEN Head(list).id ELSE m
next_id(list) == max_id(list) + 1

\* The file a handler reads the known list from (control.rs:55, 99, 222, 268;
\* project.rs:28) and the file each handler writes it to (control.rs:132,
\* 240, 320).
ReadFile == "known"
WriteFile(op) == IF op = "create" THEN "konwn" ELSE "known"

\* find(|x| x.id == id) (control.rs:279-283).
find_project(list, id) == SelectSeq(list, LAMBDA x : x.id = id)

\* known.project.retain(|x| x.id == project.id) (control.rs:317).
retain_project(list, id) == SelectSeq(list, LAMBDA x : x.id = id)

\* A handler answers: the request is recorded with its status and the list
\* it read.
Answer(op, id, status, before) ==
    lastReq' = [op |-> op, id |-> id, status |-> status, before |-> before]

\* POST add (control.rs:96-151): the list is read, the project's
\* PacMine.toml is read (500 when that fails), the project is pushed as a
\* manual one and the list is written.
DaemonAdd ==
    /\ Len(disk[ReadFile]) < MaxProjects
    /\ LET known == disk[ReadFile]
       IN \E readable \in BOOLEAN :
            IF readable
            THEN /\ disk' = [disk EXCEPT ![WriteFile("add")] =
                                 Append(known, [id |-> next_id(known), manual |-> TRUE])]
                 /\ Answer("add", next_id(known), "200", known)
            ELSE /\ Answer("add", 0, "500", known)
                 /\ UNCHANGED disk
    /\ UNCHANGED <<cancel_token, tmVars, outVars, relayVars, histVars, inVars, guardVars, waitVars,
                   idVars, cfgVars, takenSecond, syncVars, bkVars, termVars>>

\* POST create (control.rs:154-259): the body is parsed (500 when that
\* fails), the project's directory is made and filled, the list is read, the
\* project is pushed as one the daemon made, and the list is written.
DaemonCreate ==
    /\ Len(disk[ReadFile]) < MaxProjects
    /\ LET known == disk[ReadFile]
       IN \E parsed \in BOOLEAN :
            IF parsed
            THEN /\ disk' = [disk EXCEPT ![WriteFile("create")] =
                                 Append(known, [id |-> next_id(known), manual |-> FALSE])]
                 /\ Answer("create", next_id(known), "200", known)
            ELSE /\ Answer("create", 0, "500", known)
                 /\ UNCHANGED disk
    /\ UNCHANGED <<cancel_token, tmVars, outVars, relayVars, histVars, inVars, guardVars, waitVars,
                   idVars, cfgVars, takenSecond, syncVars, bkVars, termVars>>

\* GET remove/{id} (control.rs:262-339): the list is read; 404 when the id is
\* not in it, 405 when the project is a manual one, 500 when its directory
\* cannot be removed; else retain() and the list is written.
DaemonRemove ==
    \E id \in ProjectIds, removable \in BOOLEAN :
        LET known == disk[ReadFile]
            found == find_project(known, id)
        IN /\ IF found = << >>
              THEN Answer("remove", id, "404", known) /\ UNCHANGED disk
              ELSE IF found[1].manual
              THEN Answer("remove", id, "405", known) /\ UNCHANGED disk
              ELSE IF ~removable
              THEN Answer("remove", id, "500", known) /\ UNCHANGED disk
              ELSE /\ disk' = [disk EXCEPT ![WriteFile("remove")] = retain_project(known, id)]
                   /\ Answer("remove", id, "200", known)
           /\ UNCHANGED <<cancel_token, tmVars, outVars, relayVars, histVars, inVars, guardVars,
                          waitVars, idVars, cfgVars, takenSecond, syncVars, bkVars, termVars>>

\* ------------------------------------------------------------------ specifications

Behaviours == {"obeys", "ignores", "noread", "selfexit"}

\* The state after TaskManager::new and Runner::spawn_server.
InitRuntime ==
    /\ cancel_token = FALSE
    /\ spawn_channel = << >>
    /\ tasks = {}
    /\ tasksLock = Free
    /\ taskState = [t \in Tasks |-> "new"]
    /\ taskKind = [t \in Tasks |-> "plain"]
    /\ managerPc = "select"
    /\ managerTask = 0
    /\ shutdownPc = "idle"
    /\ lateOk = {}
    /\ NEXT_RUNNER_ID = FirstRunnerId
    /\ spawnPc = [s \in Spawners |-> "idle"]
    /\ spawnId = [s \in Spawners |-> 0]
    /\ nSpawns = 0
    /\ idLog = << >>
    /\ runners = << >>
    /\ spawnLeft = [s \in Spawners |-> [child |-> FALSE, loops |-> 0]]
    /\ rxHandle = "held"
    /\ takenSecond = << >>
    /\ stdinCh = << >>
    /\ pumpLine = NoLine
    /\ readIn = << >>
    /\ screen = << >>
    /\ bkSchedule = << >>
    /\ bkLock = Free
    /\ bkQueue = << >>
    /\ bkPc = "head"
    /\ bkTask = 0
    /\ apiPc = [c \in ApiCallers |-> IdleCall]
    /\ nApi = 0
    /\ bkRan = << >>
    /\ bkGone = {}
    /\ childState = "running"
    /\ nEmitted = 0
    /\ stdoutPipe = << >>
    /\ readerPc = "select"
    /\ readerLine = NoLine
    /\ output = << >>
    /\ foldRest = << >>
    /\ value = NoLine
    /\ rx = << >>
    /\ rxLock = Free
    /\ consumerPc = "idle"
    /\ taken = << >>
    /\ published = << >>
    /\ discarded = << >>
    /\ consumed = << >>
    /\ lastFold = [input |-> NoLine, chain |-> NoChain, stored |-> NoChain]
    /\ stdinPipe = << >>
    /\ input = << >>
    /\ writerPc = "select"
    /\ writerLine = NoLine
    /\ nSent = 0
    /\ entered = << >>
    /\ written = << >>
    /\ stop = "some"
    /\ stopCh = "empty"
    /\ stopT = 0
    /\ guardPc = "select"
    /\ graceLeft = 0
    /\ exit = <<"pending">>
    /\ exitLock = Free
    /\ waitPc = [w \in Waiters |-> "idle"]
    /\ waitGot = [w \in Waiters |-> None]
    /\ sinceStop = 0
    /\ killLog = << >>
    /\ killedAt = << >>

\* The state after CommandLoader::new (mod.rs:35-39): nothing registered, no
\* relay.
InitLoader ==
    /\ plugins = NoChain
    /\ nRegister = 0
    /\ relayPc = "unloaded"
    /\ relayPlugins = NoChain

\* The work_dir after the daemon's start (daemon/run.rs:48-53): a known.toml
\* with no project; no request served.
InitDisk ==
    /\ disk = [known |-> << >>, konwn |-> NoFile]
    /\ lastReq = NoRequest
    /\ InitTerminal

InitCore == InitRuntime /\ InitLoader /\ InitDisk

\* The state after register(id, vec![Box::new(ExamplePlugin)]) and load():
\* the relay runs with ExamplePlugin as its chain.
InitExampleLoaded ==
    /\ plugins = <<ExamplePlugin>>
    /\ nRegister = 1
    /\ relayPc = "recv"
    /\ relayPlugins = <<ExamplePlugin>>

\* The runtime beside a daemon Config that is not written.
Init0 ==
    /\ InitCore
    /\ config = DefaultConfig
    /\ cfgPc = "new"
    /\ file = << >>
    /\ loaded = << >>

\* --- the daemon's Config, written to its file and read back.
InitConfig ==
    /\ InitCore
    /\ behaviour = "obeys"
    /\ config \in Configs
    /\ cfgPc = "new"
    /\ file = << >>
    /\ loaded = << >>

NextConfig ==
    \/ to_file
    \/ from_file

SpecConfig == InitConfig /\ [][NextConfig]_vars

\* --- the output path and the relay: child stdout -> stdout-reader ->
\* Runner.output -> relay -> consumer, with register() and the shutdown as the
\* Runner's loops see it.
InitRelay == Init0 /\ behaviour = "selfexit"

NextRelay ==
    \/ ChildEmit
    \/ ChildExit
    \/ ReaderRead
    \/ ReaderSend
    \/ ReaderEof
    \/ ReaderCancelled
    \/ Register
    \/ load
    \/ PipelineRecv
    \/ PipelineClosed
    \/ PipelineFold
    \/ PipelinePlugin
    \/ PipelineTrySend
    \/ PipelineClear
    \/ RelayCancelled
    \/ WriterCancelled
    \/ ConsumerLock
    \/ ConsumerRecv
    \/ ConsumerDone
    \/ TokenCancel
    \/ AbortLoops

SpecRelay == InitRelay /\ [][NextRelay]_vars

\* --- two readers of Runner.output: the relay and a second reader, with the
\* child, the stdout-reader, register() and the consumer of the relay.
NextReaders ==
    \/ Register
    \/ ChildEmit
    \/ ChildExit
    \/ ReaderRead
    \/ ReaderSend
    \/ ReaderEof
    \/ load
    \/ PipelineRecv
    \/ PipelineFold
    \/ PipelinePlugin
    \/ PipelineTrySend
    \/ PipelineClear
    \/ ConsumerLock
    \/ ConsumerRecv
    \/ ConsumerDone
    \/ SecondReaderRecv

SpecReaders == InitRelay /\ [][NextReaders]_vars

\* --- the same, with a caller that may drop the handle load() returned.
NextHandle ==
    \/ NextRelay
    \/ DropHandle

SpecHandle == InitRelay /\ [][NextHandle]_vars

\* The runtime polls the stdout-reader and the relay whenever they can go on,
\* and a consumer that waits in recv() with the lock in hand is woken when a
\* line is there.  The consumer owes nothing else: it may not read, and the
\* write of a line to the console may take any time.
FairnessRelay ==
    /\ WF_vars(ReaderRead)
    /\ WF_vars(ReaderSend)
    /\ WF_vars(PipelineRecv)
    /\ WF_vars(PipelineClosed)
    /\ WF_vars(PipelineFold)
    /\ WF_vars(PipelinePlugin)
    /\ WF_vars(PipelineTrySend)
    /\ WF_vars(PipelineClear)
    /\ WF_vars(ReaderCancelled)
    /\ WF_vars(RelayCancelled)
    /\ WF_vars(ConsumerRecv)

FairSpecRelay == SpecRelay /\ FairnessRelay

\* --- the Runner in operation (no TaskManager shutdown): the caller's lines,
\* the stdin-writer, the child, kill_with_timeout, the exit-guard, the clock.
Init == Init0 /\ behaviour \in Behaviours

Next ==
    \/ ChildRead
    \/ ChildExit
    \/ CallerSend
    \/ WriterRecv
    \/ WriterWrite
    \/ Kill
    \/ GuardStop
    \/ GuardWatch
    \/ GuardSend
    \/ GuardGraceExit
    \/ GuardGraceKill
    \/ GuardWait
    \/ Tick

Spec == Init /\ [][Next]_vars

\* The scheduling of the tasks: the runtime polls every task that can go on,
\* the clock advances, a child that reads its stdin goes on reading and a
\* child that is stopping exits.  The caller owes no further call.
Fairness ==
    /\ WF_vars(ChildRead)
    /\ WF_vars(ChildExit /\ childState = "stopping")
    /\ WF_vars(WriterRecv)
    /\ WF_vars(WriterWrite)
    /\ WF_vars(GuardStop)
    /\ WF_vars(GuardWatch)
    /\ WF_vars(GuardSend)
    /\ WF_vars(GuardGraceExit)
    /\ WF_vars(GuardGraceKill)
    /\ WF_vars(GuardWait)
    /\ WF_vars(Tick)

FairSpec == Spec /\ Fairness

\* --- the same, with a forced kill that can fail.
NextKill ==
    \/ Next
    \/ GuardGraceKillFails

SpecKill == Init /\ [][NextKill]_vars

FairSpecKill == SpecKill /\ Fairness

\* --- a Runner that its owner may drop without a stop request, its child,
\* its exit-guard and its stdin-writer; no shutdown of the TaskManager.
NextDrop ==
    \/ ChildRead
    \/ ChildExit
    \/ CallerSend
    \/ WriterRecv
    \/ WriterWrite
    \/ GuardWatch
    \/ GuardWait
    \/ DropRunner
    \/ GuardStopClosed

SpecDrop == Init /\ [][NextDrop]_vars

\* --- the stdio cycle: the child, the stdout-reader, the relay with
\* ExamplePlugin as its chain, the console's lines, the stdin-writer; no stop
\* request and no shutdown, and nothing reads the relay's own channel.  The
\* child reads its stdin all along, or once its start-up lines are written.
InitCycle ==
    /\ InitRuntime
    /\ InitExampleLoaded
    /\ InitDisk
    /\ config = DefaultConfig
    /\ cfgPc = "new"
    /\ file = << >>
    /\ loaded = << >>
    /\ behaviour \in {"ignores", "startup"}

ChildEmitCycle == ChildEmitUpTo(MaxCycleLines)

NextCycle ==
    \/ ChildEmitCycle
    \/ ChildRead
    \/ ReaderRead
    \/ ReaderSend
    \/ PipelineRecv
    \/ PipelineFold
    \/ PipelineExamplePlugin
    \/ PipelineTrySend
    \/ PipelineClear
    \/ CallerSend
    \/ WriterRecv
    \/ WriterWrite

SpecCycle == InitCycle /\ [][NextCycle]_vars

\* The runtime polls every task that can go on, and the child runs its program: it writes its next line when the
\* pipe takes it and reads its stdin when its program comes to that.  The user
\* at the console owes no line.
FairnessCycle ==
    /\ WF_vars(ChildEmitCycle)
    /\ WF_vars(ChildRead)
    /\ WF_vars(ReaderRead)
    /\ WF_vars(ReaderSend)
    /\ WF_vars(PipelineRecv)
    /\ WF_vars(PipelineFold)
    /\ WF_vars(PipelineExamplePlugin)
    /\ WF_vars(PipelineTrySend)
    /\ WF_vars(PipelineClear)
    /\ WF_vars(WriterRecv)
    /\ WF_vars(WriterWrite)

FairSpecCycle == SpecCycle /\ FairnessCycle

\* --- sync_channel_stdio between the console and a Runner whose relay is
\* loaded with no plugin: the console's lines, the two pumps, the child that
\* reads its stdin, the stdin-writer, the stdout-reader and the relay; no stop
\* request and no shutdown.
InitSync == Init0 /\ behaviour = "ignores"

NextSync ==
    \/ ConsoleLine
    \/ PumpStdinNext
    \/ PumpStdinSend
    \/ ConsumerLock
    \/ ConsumerRecv
    \/ PumpStdoutDone
    \/ ChildEmit
    \/ ChildRead
    \/ ReaderRead
    \/ ReaderSend
    \/ load
    \/ PipelineRecv
    \/ PipelineFold
    \/ PipelineTrySend
    \/ PipelineClear
    \/ WriterRecv
    \/ WriterWrite

SpecSync == InitSync /\ [][NextSync]_vars

\* --- the BackupManager: backup_thread and the callers of register, remove
\* and run_now, until the token is cancelled.
InitBackup == Init0 /\ behaviour = "obeys"

NextBackup ==
    \/ \E c \in ApiCallers : ApiCall(c)
    \/ BackupHead
    \/ LockGranted
    \/ BackupSleepDone
    \/ BackupDue
    \/ TokenCancel

SpecBackup == InitBackup /\ [][NextBackup]_vars

\* The runtime polls backup_thread and the callers, the Mutex hands the lock
\* on when it is free, and the sleeps end.
FairnessBackup ==
    /\ WF_vars(BackupHead)
    /\ WF_vars(LockGranted)
    /\ WF_vars(BackupSleepDone)
    /\ WF_vars(BackupDue)

FairSpecBackup == SpecBackup /\ FairnessBackup

\* --- the daemon's handlers over the known list of a work_dir, one request at
\* a time.
InitDaemon ==
    /\ InitRuntime
    /\ InitLoader
    /\ config = DefaultConfig
    /\ cfgPc = "new"
    /\ file = << >>
    /\ loaded = << >>
    /\ behaviour = "obeys"
    /\ disk \in [known : KnownLists, konwn : {NoFile}]
    /\ lastReq = NoRequest
    /\ InitTerminal

NextDaemon ==
    \/ DaemonAdd
    \/ DaemonCreate
    \/ DaemonRemove

SpecDaemon == InitDaemon /\ [][NextDaemon]_vars

\* --- terminal mode: start_server, the server thread with its loops, the
\* print loop, the console input loop, backup_thread and the child.
InitTerm == Init0 /\ behaviour \in {"obeys", "ignores", "selfexit"}

NextTerm ==
    \/ CtrlC
    \/ StartNotified
    \/ StartJoin
    \/ ServerReady
    \/ ServerStop
    \/ ServerGraceExit
    \/ ServerGraceKill
    \/ ServerChildExited
    \/ ServerCleanup
    \/ \E l \in HelperLoops : HelperLine(l)
    \/ \E l \in HelperLoops : HelperHandled(l)
    \/ \E l \in HelperLoops : HelperBreak(l)
    \/ PrintLine
    \/ PrintSelect
    \/ PrintClosed
    \/ ConsoleRead
    \/ ConsoleBodyDone
    \/ ConsoleBreak
    \/ BackupReady
    \/ BackupStopped
    \/ ChildExit

SpecTerm == InitTerm /\ [][NextTerm]_vars

\* The runtime polls every task that can go on, a select! whose notified()
\* is ready ends, the 10 s pass, and a child that is stopping exits.  The
\* child, the console and the user owe nothing else.
FairnessTerm ==
    /\ WF_vars(StartNotified)
    /\ WF_vars(StartJoin)
    /\ WF_vars(ServerReady)
    /\ WF_vars(ServerStop)
    /\ WF_vars(ServerGraceExit)
    /\ WF_vars(ServerGraceKill)
    /\ WF_vars(ServerChildExited)
    /\ WF_vars(ServerCleanup)
    /\ \A l \in HelperLoops : WF_vars(HelperHandled(l)) /\ WF_vars(HelperBreak(l))
    /\ WF_vars(PrintSelect)
    /\ WF_vars(PrintClosed)
    /\ WF_vars(ConsoleBodyDone)
    /\ WF_vars(ConsoleBreak)
    /\ WF_vars(BackupReady)
    /\ WF_vars(BackupStopped)
    /\ WF_vars(ChildExit /\ childState = "stopping")

FairSpecTerm == SpecTerm /\ FairnessTerm

\* --- Runner.input with all its senders: the caller, a plugin and the
\* exit-guard, in front of a child that reads its stdin and exits when it will.
\* The runs are those in which no tick of the clock passes: a timeout of zero
\* elapses, a longer one does not.
InitInput == Init0 /\ behaviour = "selfexit"

NextInput ==
    \/ ChildRead
    \/ ChildExit
    \/ CallerSend
    \/ PluginSend
    \/ WriterRecv
    \/ WriterWrite
    \/ Kill
    \/ GuardStop
    \/ GuardWatch
    \/ GuardSend
    \/ GuardGraceExit
    \/ GuardGraceKill
    \/ GuardWait

SpecInput == InitInput /\ [][NextInput]_vars

\* --- wait(): the callers of wait(), kill_with_timeout, the exit-guard, the
\* child and the clock.
NextWait ==
    \/ ChildRead
    \/ ChildExit
    \/ WriterRecv
    \/ WriterWrite
    \/ Kill
    \/ GuardStop
    \/ GuardWatch
    \/ GuardSend
    \/ GuardGraceExit
    \/ GuardGraceKill
    \/ GuardWait
    \/ Wait
    \/ Tick

SpecWait == Init /\ [][NextWait]_vars

\* A call of wait() that can go on is polled by the runtime; its caller may
\* still drop it.
FairnessWait ==
    \A w \in Waiters : WF_vars(WaitLock(w)) /\ WF_vars(WaitPoll(w))

FairSpecWait == SpecWait /\ Fairness /\ FairnessWait

\* --- the ids: concurrent calls of spawn_server, beside the Runner that
\* is already there, its stdin-writer and its exit-guard.
InitIds == Init0 /\ behaviour = "selfexit"

NextIds ==
    \/ spawn_server
    \/ ChildExit
    \/ GuardWatch
    \/ GuardWait
    \/ CallerSend
    \/ WriterRecv
    \/ WriterWrite

SpecIds == InitIds /\ [][NextIds]_vars

\* --- the TaskManager: submissions, the tasks, the coordinator, shutdown().
InitTM == Init0 /\ behaviour = "ignores"

NextTM ==
    \/ spawn
    \/ spawn_with_cancel
    \/ Task
    \/ ManagerPollJoin
    \/ ManagerCancelled
    \/ ManagerRecv
    \/ ManagerSpawn
    \/ ManagerJoin
    \/ ShutdownStart
    \/ ShutdownLock
    \/ ShutdownAbort
    \/ ShutdownJoin

SpecTM == InitTM /\ [][NextTM]_vars

\* The runtime polls the coordinator and shutdown() whenever they can go on
\* and cancels a task whose abort was requested; nobody owes a submission and
\* no task owes its end.
FairnessTM ==
    /\ WF_vars(ManagerCancelled)
    /\ WF_vars(ManagerRecv)
    /\ WF_vars(ManagerSpawn)
    /\ WF_vars(ShutdownLock)
    /\ WF_vars(ShutdownAbort)
    /\ WF_vars(ShutdownJoin)
    /\ \A t \in Tasks : WF_vars(TaskAborted(t))

FairSpecTM == SpecTM /\ FairnessTM

\* ================================================================== claims

\* ------------------------------------------------------------------ C1

\* The lines the relay published, oldest first.
PublishedLines == [i \in 1..Len(published) |-> published[i].line]

\* C1 (overflow policy of the relay).  With a consumer that has read nothing,
\* once the relay has published RelayCap + k lines (k > 0) the line the next
\* read returns, the head of the relay's channel, is one of the RelayCap lines
\* published last and carries the number of none of the first k lines.
C1_OverflowKeepsNewest ==
    (consumed = << >> /\ Len(published) > RelayCap /\ rx # << >>) =>
        /\ Head(rx) \in Range(LastN(PublishedLines, RelayCap))
        /\ \A i \in 1..(Len(published) - RelayCap) :
              origin(Head(rx)) # origin(published[i].line)

\* The relay overflowed twice under a consumer that read nothing, and its
\* channel is full again.
C1_Witness ==
    /\ consumed = << >>
    /\ Len(published) >= RelayCap + 2
    /\ Len(rx) = RelayCap
    /\ Len(discarded) >= 2

\* ------------------------------------------------------------------ C2

\* C2 (hot-swap of the chain).  Every fold the relay starts runs through the
\* chain that register() stored last for the runner id (the fold that starts
\* after register([C]) returned goes through [C]).
C2_FoldUsesRegisteredChain ==
    lastFold.input # NoLine => lastFold.chain = lastFold.stored

\* ------------------------------------------------------------------ C3

\* C3 (fold order).  Every line the relay publishes is the left fold of the
\* chain over the line it received: Pn(...P1(x)...), each plugin applied once,
\* in registration order.
C3_PublishedIsFold ==
    \A i \in 1..Len(published) :
        published[i].line = fold(published[i].chain, <<origin(published[i].line)>>)

\* ------------------------------------------------------------------ C4

\* C4 (wait is repeatable).  No call of wait() fails or panics, and every call
\* that returned reports the terminal exit status of the child.
C4_WaitAlwaysReturnsStatus ==
    \A w \in Waiters :
        /\ waitPc[w] \notin {"err", "panic"}
        /\ waitPc[w] = "ok" => (Dead(childState) /\ waitGot[w] = ExitStatusOf(childState))

\* ------------------------------------------------------------------ C5

\* Number of stop lines that entered Runner.input.
StopLinesEntered == Cardinality({i \in 1..Len(entered) : entered[i] = StopLine})

\* A call of kill_with_timeout that finds the stop sender already taken
\* changes nothing but the record of the call.
RepeatedKillHasNoEffect ==
    (stop = "none" /\ killLog' # killLog) =>
        UNCHANGED <<cancel_token, tmVars, outVars, relayVars, histVars, inVars, stop, stopCh,
                    stopT, guardPc, graceLeft, exit, sinceStop, killedAt, waitVars, idVars, cfgVars, takenSecond, syncVars, otherVars>>

\* C5 (idempotent stop).  The first call of kill_with_timeout on a live Runner
\* (its exit-guard still in its select!) succeeds, every later call returns
\* the "repeated" error and changes nothing, at most one call succeeds and at
\* most one stop line is sent to the child.
C5_IdempotentStop ==
    /\ [](/\ \A i \in 1..Len(killLog) :
                /\ (i = 1 /\ killLog[i].live) => killLog[i].result = "ok"
                /\ i > 1 => killLog[i].result = "repeated"
          /\ Cardinality({i \in 1..Len(killLog) : killLog[i].result = "ok"}) <= 1
          /\ StopLinesEntered <= 1
          /\ StopLinesEntered = 1 => StopAccepted)
    /\ [][RepeatedKillHasNoEffect]_vars

\* The first call succeeded, a second one was refused, and the one stop line
\* has entered Runner.input.
C5_Witness ==
    /\ Len(killLog) = MaxKills
    /\ killLog[1].result = "ok"
    /\ killLog[Len(killLog)].result = "repeated"
    /\ StopLinesEntered = 1

\* ------------------------------------------------------------------ C6

\* The exit-guard calls start_kill only out of its grace period, the child not
\* observed exited, and only when the timeout has elapsed since the request.
KillOnlyAfterDeadline ==
    (killedAt' # killedAt) => (guardPc = "grace" /\ sinceStop >= stopT)

\* C6 (graceful before forceful).  The exit-guard never kills before the
\* timeout T has elapsed since the stop request, and for a child that ignores
\* the stop line the exit status is resolved (so wait() can return) no
\* earlier than T after the request, and by the forced kill.
C6_GracefulBeforeForceful ==
    /\ [](/\ killedAt # << >> => (StopAccepted /\ killedAt[1] >= stopT)
          /\ (behaviour = "ignores" /\ exit # <<"pending">>) =>
                (StopAccepted /\ sinceStop >= stopT /\ killedAt # << >>))
    /\ [][KillOnlyAfterDeadline]_vars

\* A child that ignores the stop line was killed after the longest timeout and
\* its status is resolved.
C6_Witness ==
    /\ behaviour = "ignores"
    /\ stopT = MaxT
    /\ killedAt = <<MaxT>>
    /\ exit = <<"status", "signal">>

\* ------------------------------------------------------------------ C7

\* C7 (eventual termination under caller control).  After kill_with_timeout
\* has succeeded the child is eventually terminated and its exit status
\* resolved, whatever the child does and whatever Runner.input holds.
C7_EventualTermination ==
    StopAccepted ~> (Dead(childState) /\ exit # <<"pending">>)

\* ------------------------------------------------------------------ C8

\* Flattening of the optional line a loop holds.
Held(line) == IF line = NoLine THEN << >> ELSE <<line>>

\* The lines the child has written to its stdout, in emission order.
Emitted == [i \in 1..nEmitted |-> <<i>>]

\* C8 (lossless ordered output).  What the consumer of Runner.output has
\* received, followed by the channel's buffer, is a prefix of the child's
\* emission; while the stdout-reader runs nothing is missing: received,
\* buffered, held by the reader and still in the pipe make up the emission
\* exactly, and the channel never holds more than its capacity.
C8_LosslessOrderedOutput ==
    /\ IsPrefix(taken \o output, Emitted)
    /\ Len(output) <= OutputCap
    /\ ~Ended(readerPc) =>
          taken \o output \o Held(readerLine) \o stdoutPipe = Emitted

\* The stdout-reader holds a line and waits on the full channel, the consumer
\* has received lines and the child has written all its lines.
C8_Witness ==
    /\ readerPc = "send"
    /\ Len(output) = OutputCap
    /\ taken # << >>
    /\ nEmitted = MaxLines

\* ------------------------------------------------------------------ C9

\* C9 (input ordering).  What was written to the child's stdin is a prefix of
\* what entered Runner.input; while the stdin-writer runs nothing is missing
\* or doubled: written, held by the writer and buffered make up what entered,
\* in that order.
C9_InputOrder ==
    /\ IsPrefix(written, entered)
    /\ ~Ended(writerPc) => written \o Held(writerLine) \o input = entered

\* Lines of the caller, of a plugin and the stop line of the exit-guard were
\* written to the child, and the stdin-writer still runs.
C9_Witness ==
    /\ Len(written) >= 3
    /\ StopLine \in Range(written)
    /\ \E i \in 1..Len(written) : written[i][1] = "caller"
    /\ \E i \in 1..Len(written) : written[i][1] = "plugin"
    /\ ~Ended(writerPc)

\* ------------------------------------------------------------------ C10

\* No task runs or waits to be started.
Drained == \A t \in Tasks : taskState[t] \notin {"queued", "running", "aborting"}

\* C10 (shutdown drains).  Once shutdown() is called it returns and every task
\* terminates: when shutdown() has returned no task is waiting to be started
\* and none runs without its abort requested, and the tasks whose abort is
\* pending end, so that none is left running.
C10_ShutdownDrains ==
    /\ [](shutdownPc = "returned" =>
             \A t \in Tasks : taskState[t] \notin {"queued", "running"})
    /\ (shutdownPc # "idle") ~> (shutdownPc = "returned" /\ Drained)

\* shutdown() has just returned: it aborted a tracked task and awaited its
\* end, a task was dropped unstarted with the queue, and the abort of a task
\* the coordinator started after that is requested by the drop of the JoinSet.
C10_Witness ==
    /\ shutdownPc = "returned"
    /\ taskState[1] = "aborted"
    /\ taskState[2] = "aborting"
    /\ taskState[3] = "dropped"

\* ------------------------------------------------------------------ C11

\* A step in which a task fails (error or panic) leaves the token, the
\* coordinator, the JoinSet and every other task as they were.
FailureTouchesNothingElse ==
    \A t \in Tasks :
        (taskState[t] # "failed" /\ taskState'[t] = "failed") =>
            /\ UNCHANGED <<cancel_token, managerPc, tasks, spawn_channel>>
            /\ \A u \in Tasks \ {t} : taskState'[u] = taskState[u]

\* A step in which the coordinator takes a failed task out of the JoinSet
\* removes that task alone and changes no task state and not the token.
FailedJoinOnlyLogged ==
    \A t \in Tasks :
        (managerPc = "select" /\ tasksLock = "manager" /\ taskState[t] = "failed"
            /\ t \in tasks /\ t \notin tasks') =>
            /\ tasks' = tasks \ {t}
            /\ UNCHANGED <<cancel_token, taskState, spawn_channel>>
            /\ managerPc' = "select"

\* C11 (failure isolation).  A task that fails is only logged: its failure and
\* its removal from the JoinSet never cancel the token, never abort or remove
\* another task, and the coordinator stays in its loop, where it accepts new
\* tasks, for as long as the token is not cancelled.
C11_FailureIsolation ==
    /\ [](~cancel_token => managerPc # "exited")
    /\ [][FailureTouchesNothingElse /\ FailedJoinOnlyLogged]_vars

\* A task failed and was taken out of the JoinSet; a sibling still runs, the
\* coordinator is in its loop and a task submitted since has been started.
C11_Witness ==
    /\ taskState[1] = "failed" /\ 1 \notin tasks
    /\ taskState[2] = "running" /\ 2 \in tasks
    /\ taskState[3] = "running" /\ 3 \in tasks
    /\ managerPc = "select"
    /\ ~cancel_token

\* ------------------------------------------------------------------ C12

\* C12 (submission after shutdown began).  No call of spawn or
\* spawn_with_cancel made after the token was cancelled returns Ok for a task
\* that is then never run: such a call fails with a submission error.
C12_LateSubmissionFails ==
    \A t \in lateOk : taskState[t] # "dropped"

\* ------------------------------------------------------------------ C13

\* The exit oneshot is resolved once, by the exit-guard, when the child is
\* terminated and with the status of that termination; afterwards it only
\* passes from sent to received.
ExitResolvedOnce ==
    /\ (exit = <<"pending">> /\ exit' # exit) =>
          /\ Dead(childState)
          /\ exit' = <<"status", IF childState = "killed" THEN "signal" ELSE "code">>
    /\ (exit # <<"pending">> /\ exit' # exit) =>
          (exit[1] = "status" /\ exit' = <<"consumed">>)

\* C13 (exit status resolved once).  Once the child has exited, on its own,
\* after the stop line or by the forced kill, the exit-guard resolves the exit
\* oneshot, exactly once and with the child's real status, and the call of
\* wait() that is pending on it returns that status (unless its caller drops
\* it).
C13_ExitResolvedOnce ==
    /\ [][ExitResolvedOnce]_vars
    /\ Dead(childState) ~> (exit # <<"pending">>)
    /\ \A w \in Waiters :
          (Dead(childState) /\ waitPc[w] = "await" /\ exit[1] \in {"pending", "status"}) ~>
              \/ waitPc[w] = "idle"
              \/ /\ waitPc[w] = "ok"
                 /\ waitGot[w] = (IF childState = "killed" THEN "signal" ELSE "code")

\* A call of wait() that was pending returned the status of a child that was
\* killed after it ignored the stop line.
C13_Witness ==
    /\ behaviour = "ignores"
    /\ childState = "killed"
    /\ waitPc["w1"] = "ok"
    /\ waitGot["w1"] = "signal"
    /\ exit = <<"consumed">>

\* ------------------------------------------------------------------ C14

C15_OutputCloses ==
    (Dead(childState) /\ readerPc = "eof") ~> OutputClosed

\* ------------------------------------------------------------------ C16

\* k copies of a chain, one after the other.
RECURSIVE Copies(_, _)
Copies(chain, k) == IF k = 0 THEN << >> ELSE chain \o Copies(chain, k - 1)

\* The tags a line carries: the plugins that processed it, in order.
Tags(line) == Tail(line)

\* C16 (a fold never sees a mixed chain).  With register() replacing the chain
\* at any moment, a fold in progress has applied a prefix of the one chain it
\* started with and has the rest of that chain still to call, and every
\* published line carries whole passes of one single chain version, never
\* plugins of two versions.
C16_NoMixedChain ==
    /\ relayPc = "plugin" =>
          \E n \in 0..Len(lastFold.chain) :
              /\ foldRest = SubSeq(lastFold.chain, n + 1, Len(lastFold.chain))
              /\ value = lastFold.input \o SubSeq(lastFold.chain, 1, n)
    /\ \A i \in 1..Len(published) :
          \E k \in 0..(MaxLines + 1) :
              Tags(published[i].line) = Copies(published[i].chain, k)

\* register() replaced the chain [A,B] by [C] while a fold over [A,B] had
\* called A and not yet B.
C16_Witness ==
    /\ relayPc = "plugin"
    /\ lastFold.chain = <<"A", "B">>
    /\ foldRest = <<"B">>
    /\ plugins = <<"C">>

\* ------------------------------------------------------------------ C17

\* C17 (runner ids unique and monotonic).  Every id taken from the counter is
\* strictly greater than every id taken before it, the counter is above them
\* all, and no two Runners share an id: with concurrent calls of spawn_server
\* and with calls that failed before or after they took their id.
C17_IdsUniqueMonotonic ==
    /\ \A i, j \in 1..Len(idLog) : i < j => idLog[i] < idLog[j]
    /\ \A i \in 1..Len(idLog) : idLog[i] < NEXT_RUNNER_ID
    /\ \A i, j \in 1..Len(runners) : i # j => runners[i] # runners[j]
    /\ \A i \in 1..Len(runners) : runners[i] \in Range(idLog)

\* Two concurrent calls returned their Runners in the reverse order of their
\* ids, after a call that had taken an id failed.
C17_Witness ==
    /\ Len(runners) = 2
    /\ runners[1] > runners[2]
    /\ Len(idLog) = MaxSpawns
    /\ idLog[1] \notin Range(runners)

\* ------------------------------------------------------------------ C18

\* The line terminator: "stop\n" (runner.rs:87), line.add("\n") (runner.rs:191),
\* format!("tellraw {} {}\n", ..) (raw.rs:19).
Terminator == "\n"

InputLineHasTerminator(l) == Len(l) >= 3 /\ l[3] = Terminator
OutputLineHasTerminator(l) == \E i \in 2..Len(l) : l[i] = Terminator

InputTerminatorFree == \A i \in 1..Len(input) : ~InputLineHasTerminator(input[i])
OutputTerminatorFree == \A i \in 1..Len(output) : ~OutputLineHasTerminator(output[i])

\* C18 (terminator-free channels).  No string held in Runner.input or in
\* Runner.output contains a line terminator, whoever put it there: the
\* console bridge, a plugin or the exit-guard's stop request.
C18_ChannelsTerminatorFree == InputTerminatorFree /\ OutputTerminatorFree

\* ------------------------------------------------------------------ C19

\* C19 (Config round trip).  A Config written with to_file and read back with
\* from_file loads, and the Config read equals the one written; its API
\* listen address is the one that was written.
C19_ConfigRoundTrip ==
    cfgPc = "read" => /\ loaded[1].ok
                      /\ SameConfig(loaded[1].val, config)

\* ------------------------------------------------------------------ C20

\* C20 (the writer's terminator).  For each line the stdin-writer took from
\* Runner.input, what it wrote to the child's stdin is that line followed by
\* one line terminator that the writer itself appended.
C20_WriterAppendsTerminator ==
    \A i \in 1..Len(written) : written[i] = Append(entered[i], Terminator)

\* ------------------------------------------------------------------ C21

\* The loop of the relay is gone some time after the token is cancelled,
\* wherever it was: waiting for a line, folding, or waiting for the lock.
RelayExitsWhenCancelled == cancel_token ~> (relayPc = "unloaded" \/ Ended(relayPc))

\* C21 (cooperative cancellation).  Once the token is cancelled every
\* supervised loop of the Runner ends, wherever it is suspended: the
\* stdin-writer, the stdout-reader, the exit-guard and the relay.
C21_CooperativeCancellation ==
    cancel_token ~> /\ Ended(writerPc)
                    /\ Ended(readerPc)
                    /\ Ended(guardPc)
                    /\ (relayPc = "unloaded" \/ Ended(relayPc))

\* ------------------------------------------------------------------ C22

\* shutdown() has aborted and awaited the tracked tasks (task.rs:109).
TrackedDrained == shutdownPc \in {"join", "returned"}

\* C22 (shutdown order).  shutdown() drains the tracked tasks only after the
\* coordinator loop has exited: once the tracked tasks are drained the
\* coordinator is gone and no task is tracked any more.
C22_ShutdownOrder ==
    TrackedDrained => managerPc = "exited" /\ tasks = {}

\* ------------------------------------------------------------------ C23

Started(st) == st \in {"running", "aborting", "finished", "failed", "aborted"}

\* C23 (registration is not blocked).  While the manager is not shutting
\* down, every task accepted on the submission queue is registered and
\* started by the coordinator, also while the coordinator waits for the end of
\* tracked tasks that never end.
C23_AcceptedTaskStarts ==
    \A t \in Tasks : (taskState[t] = "queued") ~> (Started(taskState[t]) \/ cancel_token)

\* Two tracked tasks run and have not ended, the coordinator waits in
\* join_next() with the lock of the JoinSet in hand, and a third task has
\* been accepted.
C23_Witness ==
    /\ ~cancel_token
    /\ tasks = {1, 2}
    /\ taskState = <<"running", "running", "queued">>
    /\ tasksLock = "manager"
    /\ managerPc = "select"

\* ------------------------------------------------------------------ C24

\* How often plugin p was invoked on a line: every call of process leaves
\* its tag (and does its writes to Runner.input once more).
Invocations(p, line) ==
    Cardinality({i \in 1..Len(Tags(line)) : Tags(line)[i] = p})

\* C24 (one invocation per line).  For each line received from Runner.output
\* every plugin of the chain is invoked exactly once, also when the relay's
\* channel is full and the enqueue is retried: neither the line in hand nor a
\* published line went through a plugin twice.
C24_PluginInvokedOnce ==
    /\ value # NoLine => \A p \in PluginNames : Invocations(p, value) <= 1
    /\ \A i \in 1..Len(published) :
          \A p \in Range(published[i].chain) : Invocations(p, published[i].line) = 1

\* ------------------------------------------------------------------ C25

\* The relay removes at most one line for each line it publishes (the line in
\* hand counts as the next one).
OneDiscardPerLine == Len(discarded) <= Len(published) + 1

\* C25 (discard only when full).  Every step in which the relay removes a
\* line from its channel starts with the channel full, also with a consumer
\* that reads at the same time; and the relay removes at most one line per
\* published line.
C25_DiscardOnlyWhenFull ==
    /\ [][Len(discarded') > Len(discarded) => Len(rx) = RelayCap]_vars
    /\ []OneDiscardPerLine

\* ------------------------------------------------------------------ C26

\* The line numbers of a sequence of lines.
Origins(ls) == [i \in 1..Len(ls) |-> origin(ls[i])]

\* a is b with some elements left out.
RECURSIVE IsSubsequence(_, _)
IsSubsequence(a, b) ==
    IF a = << >> THEN TRUE
    ELSE IF b = << >> THEN FALSE
    ELSE IF Head(a) = Head(b) THEN IsSubsequence(Tail(a), Tail(b))
    ELSE IsSubsequence(a, Tail(b))

\* C26 (order through the relay).  The lines read from the handle returned by
\* load() are, line for line and in the same order, a subsequence of the lines
\* the relay took from Runner.output: overflow removes lines, it neither
\* reorders nor duplicates them.
C26_ConsumedIsSubsequence ==
    IsSubsequence(Origins(consumed), Origins(taken))

\* The consumer has read two lines around a line that the relay removed on
\* overflow.
C26_Witness ==
    /\ Len(consumed) >= 2
    /\ \E i \in 1..Len(discarded) :
          /\ origin(consumed[1]) < origin(discarded[i])
          /\ origin(discarded[i]) < origin(consumed[2])

\* ------------------------------------------------------------------ C27

\* Runner.output is closed and holds no line, and the relay waits for one.
RelayAtClosedOutput == relayPc = "recv" /\ OutputClosed /\ output = << >>

\* The statement as given: the relay then ends with the error.
C27_RelayEndsWithError == RelayAtClosedOutput ~> (relayPc = "failed")

\* C27 (closed output ends the relay).  When Runner.output is closed and
\* drained the relay task ends and does not keep looping: it leaves the recv
\* with the "channel closed" error, or through the cancellation (or the abort)
\* that closed the channel; from then on it publishes nothing.
C27_RelayEndsWhenClosed ==
    /\ RelayAtClosedOutput ~> Ended(relayPc)
    /\ [][RelayAtClosedOutput /\ relayPc' # relayPc =>
             \/ relayPc' = "failed"
             \/ cancel_token /\ relayPc' \in {"done", "aborted"}]_vars
    /\ [][RelayAtClosedOutput \/ (Ended(relayPc) /\ OutputClosed) =>
             published' = published]_vars

\* The relay has ended with the error: the output was closed and drained
\* after the relay had published lines.
C27_Witness ==
    /\ relayPc = "failed"
    /\ OutputClosed
    /\ output = << >>
    /\ published # << >>

\* ------------------------------------------------------------------ C28

\* C28 (the relay co-owns its receiver).  The relay's own channel is never
\* closed while the relay task runs, whether or not the handle returned by
\* load() was dropped; the task ends only by cancellation or abort, or with
\* the error of a closed and drained Runner.output.
C28_RelayOutlivesHandle ==
    /\ [](relayPc \notin {"unloaded", "done", "failed", "aborted"} =>
             ~RxClosed(rxHandle, relayPc))
    /\ [][Ended(relayPc') /\ ~Ended(relayPc) =>
             \/ cancel_token
             \/ RelayAtClosedOutput]_vars

\* The handle is dropped and the relay has since published a line.
C28_Witness ==
    /\ rxHandle = "dropped"
    /\ relayPc = "recv"
    /\ published # << >>
    /\ rx # << >>
    /\ origin(rx[Len(rx)]) = MaxLines
    /\ ~cancel_token

\* ------------------------------------------------------------------ C29

\* How many lines of a sequence carry the line number n.
CountIn(ls, n) == Cardinality({i \in 1..Len(ls) : origin(ls[i]) = n})

\* Where line n of the child is: still on its way to Runner.output or in it,
\* or received by the relay, or received by the second reader.
OnTheWay(n) ==
    CountIn(stdoutPipe, n) + CountIn(output, n)
        + (IF readerLine # NoLine /\ origin(readerLine) = n THEN 1 ELSE 0)
Deliveries(n) == CountIn(taken, n) + CountIn(takenSecond, n)

\* C29 (competing readers).  With two readers of one Runner.output every line
\* is delivered to exactly one of them: no line is received twice, by one
\* reader or by both, and no line disappears between the child and the
\* readers.
C29_EachLineToOneReader ==
    \A n \in 1..nEmitted :
        /\ Deliveries(n) <= 1
        /\ Deliveries(n) + OnTheWay(n) = 1

\* All the lines of the child are delivered, two to each reader, in turns.
C29_Witness ==
    /\ Len(taken) = 2
    /\ Len(takenSecond) = 2
    /\ nEmitted = MaxLines
    /\ origin(takenSecond[1]) < origin(taken[2])
    /\ origin(taken[1]) < origin(takenSecond[2])

\* ------------------------------------------------------------------ C30

\* C30 (duplicate registration).  A call of register() for a runner id that
\* already has a chain registered returns an error to the caller.
C30_DuplicateRegisterFails ==
    [][nRegister' > nRegister /\ plugins # NoChain =>
          register_result(plugins) = "Err"]_vars

\* ------------------------------------------------------------------ C31

\* C31 (a failing kill is fatal).  When the forced kill issued after the
\* graceful deadline fails (the guard leaves the grace period and the child is
\* alive as before), the exit-guard ends with an error and does not go on to
\* wait for the child's exit.
C31_FailedKillIsFatal ==
    [][guardPc = "grace" /\ guardPc' # "grace" /\ Alive(childState) /\ childState' = childState
          => guardPc' = "failed"]_vars

\* ------------------------------------------------------------------ C32

\* C32 (the guard outlives a running child).  Without a shutdown of the
\* TaskManager the exit-guard has not ended while the child is alive, also
\* when the stop sender was dropped without a stop request.
C32_GuardSupervisesRunningChild ==
    ~cancel_token /\ Ended(guardPc) => Dead(childState)

\* ------------------------------------------------------------------ C33

\* C33 (spawn_server is all-or-nothing).  A call of spawn_server that returned
\* an error has left no loop of that Runner submitted and no child process
\* running.
C33_SpawnAllOrNothing ==
    \A s \in Spawners :
        spawnPc[s] = "failed" => ~spawnLeft[s].child /\ spawnLeft[s].loops = 0

\* ------------------------------------------------------------------ C34

\* ExamplePlugin waits in sender.send(msg): the relay is inside the fold and
\* Runner.input is open and full.
PluginBlocked ==
    /\ relayPc = "plugin"
    /\ foldRest # << >>
    /\ Head(foldRest) = ExamplePlugin
    /\ IsDotCommand(value)
    /\ ~InputClosed
    /\ ~HasRoom(input, InputCap)

\* C34: the cycle child -> stdout-reader -> relay -> plugin -> Runner.input ->
\* stdin-writer -> child has no deadlock: a plugin that waits to send on a full
\* input channel is eventually let through while the child is alive.
C34_PluginEventuallyUnblocked == PluginBlocked ~> (~PluginBlocked \/ Dead(childState))

\* ------------------------------------------------------------------ C35

\* Every line stdin.next() yielded is in pump_stdin's hand or has entered
\* Runner.input.
ConsoleLinesKept ==
    \A i \in 1..Len(readIn) :
        readIn[i] = pumpLine \/ Append(readIn[i], "\n") \in Range(entered)

\* Every line taken from the output receiver is written to the console or is
\* the one pump_stdout is writing.
OutputLinesWritten ==
    \A i \in 1..Len(consumed) :
        \/ \E j \in 1..Len(screen) : screen[j] = consumed[i]
        \/ i = Len(consumed) /\ consumerPc = "processing"

\* C35: sync_channel_stdio loses no line in either direction, whichever of
\* its two pumps ends a round of the select loop.
C35_SyncLosesNoLine == ConsoleLinesKept /\ OutputLinesWritten

\* ------------------------------------------------------------------ C36

\* C36: backup_thread makes progress: after it has run a due task it puts the
\* task back into the schedule and goes on; it never waits for ever for the
\* schedule's lock, and a call of register, remove or run_now made meanwhile
\* returns.
C36_BackupThreadProgress ==
    /\ (bkPc = "relock") ~> (bkPc = "head")
    /\ \A c \in ApiCallers : (apiPc[c].pc = "lock") ~> (apiPc[c].pc = "returned")

\* ------------------------------------------------------------------ C37

KnownList == disk[ReadFile]

C39_CreateRecordsProject ==
    lastReq.op = "create" /\ lastReq.status = "200"
        => /\ \E i \in 1..Len(KnownList) :
                 KnownList[i] = [id |-> lastReq.id, manual |-> FALSE]
           /\ \A j \in 1..Len(lastReq.before) : lastReq.before[j].id # lastReq.id

\* ------------------------------------------------------------------ C40

\* C40: once the stop flag is raised, at whatever moment, the child is
\* stopped, every helper loop ends and start_server returns.
C40_StopFlagEndsEverything ==
    stopRaised ~> (/\ startPc = "returned"
                   /\ Dead(childState)
                   /\ \A l \in HelperLoops : helperPc[l] \in {"done", "aborted"})

====
